---- MODULE Spec2Model ----
(***************************************************************************)
(* Streaming relays of flow-dictation.                                     *)
(*                                                                         *)
(*   aai  : the AssemblyAI relay with re-chunking  (src/unnamed/part_002)  *)
(*   aws  : the AWS Transcribe Medical relay        (src/server.js)        *)
(*   old  : the earlier AWS Transcribe Medical relay (src/unnamed/part_001)*)
(*                                                                         *)
(* Each variable is the closure state of one wss.on('connection') call,    *)
(* i.e. of one client connection, together with the state of the two ends  *)
(* it talks to (the client WebSocket and the upstream SDK object) and the  *)
(* history of the calls made on them.  Every action is one callback run to *)
(* completion (Node's event loop runs one callback at a time); an await    *)
(* splits a callback into the part before and the part after it.           *)
(*                                                                         *)
(* The client socket follows the ws library: messages are delivered while  *)
(* it is OPEN; an 'error' event leaves it CLOSING and is followed by the   *)
(* 'close' event, with no message in between; 'close' is emitted once.     *)
(***************************************************************************)
EXTENDS Integers, Sequences, FiniteSets, TLC

VARIABLES aai, aws, old, raw, pair, web

vars == <<aai, aws, old, raw, pair, web>>

\* null: no object; objects are numbered from 1.
NULL == 0

(***************************************************************************)
(* Bounds of the model.                                                    *)
(***************************************************************************)
MaxMsgs == 3        \* client messages delivered on one connection
MaxTurns == 1       \* upstream transcript events on one connection
MaxSessions == 2    \* upstream sessions started on one connection

(***************************************************************************)
(* Client messages.  A binary message is a Buffer of byteLength bytes; its *)
(* content is a pattern keyed by the message's arrival number k, so that   *)
(* neighbouring bytes, neighbouring samples and different messages differ. *)
(***************************************************************************)
ByteLengths == {3, 1598, 3200}

ClientMessages ==
    [isBuffer : {TRUE}, byteLength : ByteLengths]
        \cup [isBuffer : {FALSE}, byteLength : {3}]

MessageBytes(k, n) == [i \in 1..n |-> (7 * i + 31 * k) % 256]

(***************************************************************************)
(* src/unnamed/part_002: the AssemblyAI relay.                             *)
(***************************************************************************)
SAMPLE_RATE == 16000
BUFFER_SIZE == SAMPLE_RATE \div 20

\* Reading a 16-bit element: two's complement of the low 16 bits.
ToInt16(x) == LET m == x % 65536 IN IF m >= 32768 THEN m - 65536 ELSE m

\* new Int16Array(message.buffer, message.byteOffset, message.byteLength / 2):
\* a little-endian view of the first floor(byteLength / 2) byte pairs (the
\* length is truncated to an integer; byteOffset is taken to be even, as it is
\* for the messages ws delivers when every message has an even byteLength).
Int16View(message) ==
    [j \in 1..(Len(message) \div 2) |->
        ToInt16(message[2 * j - 1] + 256 * message[2 * j])]

\* Buffer.from(new Int16Array(chunk).buffer): the bytes of the chunk's samples.
FrameBuffer(chunk) ==
    [i \in 1..(2 * Len(chunk)) |->
        LET u == ToInt16(chunk[(i + 1) \div 2]) % 65536
        IN  IF i % 2 = 1 THEN u % 256 ELSE u \div 256]

\* Mutant: the new samples are put in front of the buffered ones.
PushSamplesInFront(audioBuffer, samples) == samples \o audioBuffer

\* audioBuffer.push(...samples): the samples go to the end of the buffer.
PushSamples(audioBuffer, samples) == audioBuffer \o samples

\* Mutant: the loop condition is > instead of >=.
RECURSIVE ChunkLoopStrict(_, _)
ChunkLoopStrict(audioBuffer, sent) ==
    IF Len(audioBuffer) > BUFFER_SIZE
    THEN ChunkLoopStrict(SubSeq(audioBuffer, BUFFER_SIZE + 1, Len(audioBuffer)),
                         Append(sent, FrameBuffer(SubSeq(audioBuffer, 1, BUFFER_SIZE))))
    ELSE [audioBuffer |-> audioBuffer, sendAudio |-> sent]

\* Mutant: an if instead of the while, and the rest is sent as it is.
ChunkLoopOnce(audioBuffer, sent) ==
    IF Len(audioBuffer) >= BUFFER_SIZE
    THEN [audioBuffer |-> <<>>, sendAudio |-> Append(sent, FrameBuffer(audioBuffer))]
    ELSE [audioBuffer |-> audioBuffer, sendAudio |-> sent]

\* The while loop of the message handler: as long as the buffer holds a
\* frame's worth, slice the first BUFFER_SIZE samples off and send them.
RECURSIVE ChunkLoop(_, _)
ChunkLoop(audioBuffer, sent) ==
    IF Len(audioBuffer) >= BUFFER_SIZE
    THEN ChunkLoop(SubSeq(audioBuffer, BUFFER_SIZE + 1, Len(audioBuffer)),
                   Append(sent, FrameBuffer(SubSeq(audioBuffer, 1, BUFFER_SIZE))))
    ELSE [audioBuffer |-> audioBuffer, sendAudio |-> sent]

\* Mutant: the guard does not look at isReady.
MessageAcceptedUnready(message, isReady, transcriber) ==
    message.isBuffer /\ transcriber # NULL

\* The guard of the message handler (the handler returns when it is false).
MessageAccepted(message, isReady, transcriber) ==
    message.isBuffer /\ isReady /\ transcriber # NULL

\* clientWs.send(JSON.stringify(msg)): the call, with the readyState it met.
ClientSend(ws, msg) ==
    [ws EXCEPT !.sends = Append(@, [msg |-> msg, readyState |-> ws.readyState])]

AaiInit ==
    aai = [pc |-> "connect",             \* at: await transcriber.connect()
           transcriber |-> 1,            \* assemblyai.streaming.transcriber(...)
           isReady |-> FALSE,
           audioBuffer |-> <<>>,
           socket |-> "connecting",      \* the SDK's upstream socket
           sendAudio |-> <<>>,           \* frames passed to transcriber.sendAudio
           closeCalls |-> 0,             \* calls of transcriber.close()
           clientWs |-> [readyState |-> "OPEN", sends |-> <<>>],
           nMsgs |-> 0,                  \* client messages delivered so far
           nTurns |-> 0,                 \* upstream turn events so far
           accepted |-> <<>>,            \* messages that passed the guard
           ignored |-> 0,                \* Buffers the handler returned on
           unheard |-> 0]                \* messages that met no handler

\* transcriber.on('open'): the handshake; connect() resolves with it.
AaiUpstreamOpen ==
    /\ aai.pc = "connect" /\ aai.socket = "connecting"
    /\ aai' = [aai EXCEPT !.socket = "open", !.isReady = TRUE, !.pc = "delay"]
    /\ UNCHANGED <<aws, old, raw, pair, web>>

\* Mutant: the client handlers were registered before the connect.
AaiConnectFailsRegistered ==
    /\ aai.pc = "connect" /\ aai.socket = "connecting"
    /\ aai' = [aai EXCEPT
                 !.socket = "closed", !.pc = "registered",
                 !.clientWs = ClientSend(@, [type |-> "error",
                                             message |-> "Failed to initialize: e"])]
    /\ UNCHANGED <<aws, old, raw, pair, web>>

\* connect() rejects: the catch block reports it to the client.
AaiConnectFails ==
    /\ aai.pc = "connect" /\ aai.socket = "connecting"
    /\ aai' = [aai EXCEPT
                 !.socket = "closed", !.pc = "failed",
                 !.clientWs = ClientSend(@, [type |-> "error",
                                             message |-> "Failed to initialize: e"])]
    /\ UNCHANGED <<aws, old, raw, pair, web>>

\* The 100 ms timer fires: the message and close handlers are registered.
AaiRegister ==
    /\ aai.pc = "delay"
    /\ aai' = [aai EXCEPT !.pc = "registered"]
    /\ UNCHANGED <<aws, old, raw, pair, web>>

\* transcriber.on('turn')
AaiUpstreamTurn ==
    /\ aai.socket \in {"open", "closing"} /\ aai.nTurns < MaxTurns
    /\ \E end_of_turn \in BOOLEAN :
         aai' = [aai EXCEPT
                   !.nTurns = @ + 1,
                   !.clientWs = ClientSend(@, [type |-> "transcript", text |-> "t",
                                               is_final |-> end_of_turn])]
    /\ UNCHANGED <<aws, old, raw, pair, web>>

\* Mutant: the error handler leaves the readiness flag as it is.
AaiUpstreamErrorKeepsReady ==
    /\ aai.socket \in {"connecting", "open", "closing"}
    /\ aai' = [aai EXCEPT
                 !.socket = "errored",
                 !.clientWs = ClientSend(@, [type |-> "error", message |-> "e"])]
    /\ UNCHANGED <<aws, old, raw, pair, web>>

\* transcriber.on('error'): the upstream socket failed; its close event follows.
AaiUpstreamError ==
    /\ aai.socket \in {"connecting", "open", "closing"}
    /\ aai' = [aai EXCEPT
                 !.socket = "errored",
                 !.isReady = FALSE,
                 !.clientWs = ClientSend(@, [type |-> "error", message |-> "e"])]
    /\ UNCHANGED <<aws, old, raw, pair, web>>

\* transcriber.on('close')
AaiUpstreamClose ==
    /\ aai.socket \in {"open", "errored", "closing"}
    /\ aai' = [aai EXCEPT !.socket = "closed", !.isReady = FALSE]
    /\ UNCHANGED <<aws, old, raw, pair, web>>

\* clientWs.on('message'), once registered; before that the event has no listener.
AaiClientMessage ==
    /\ aai.clientWs.readyState = "OPEN" /\ aai.nMsgs < MaxMsgs
    /\ \E m \in ClientMessages :
         LET k == aai.nMsgs + 1
             message == [isBuffer |-> m.isBuffer,
                         bytes |-> MessageBytes(k, m.byteLength)]
         IN  IF aai.pc # "registered"
             THEN aai' = [aai EXCEPT !.nMsgs = k, !.unheard = @ + 1]
             ELSE IF ~MessageAccepted(message, aai.isReady, aai.transcriber)
             THEN aai' = [aai EXCEPT !.nMsgs = k,
                                     !.ignored = IF m.isBuffer THEN @ + 1 ELSE @]
             ELSE LET samples == Int16View(message.bytes)
                      r == ChunkLoop(PushSamples(aai.audioBuffer, samples), aai.sendAudio)
                  IN  aai' = [aai EXCEPT
                                !.nMsgs = k,
                                !.accepted = Append(@, [k |-> k, byteLength |-> m.byteLength]),
                                !.audioBuffer = r.audioBuffer,
                                !.sendAudio = r.sendAudio]
    /\ UNCHANGED <<aws, old, raw, pair, web>>

\* Mutant: the close handler sends what is left in the buffer before emptying it.
AaiClientCloseFlushes ==
    /\ aai.clientWs.readyState = "OPEN"
    /\ IF aai.pc # "registered"
       THEN aai' = [aai EXCEPT !.clientWs.readyState = "CLOSED"]
       ELSE aai' = [aai EXCEPT
                      !.clientWs.readyState = "CLOSED",
                      !.isReady = FALSE,
                      !.sendAudio = IF aai.audioBuffer # <<>>
                                    THEN Append(@, FrameBuffer(aai.audioBuffer))
                                    ELSE @,
                      !.audioBuffer = <<>>,
                      !.closeCalls = IF aai.transcriber # NULL THEN @ + 1 ELSE @,
                      !.socket = IF aai.transcriber # NULL /\ @ = "open"
                                 THEN "closing" ELSE @]
    /\ UNCHANGED <<aws, old, raw, pair, web>>

\* clientWs.on('close'), once registered: up to the await on transcriber.close().
AaiClientClose ==
    /\ aai.clientWs.readyState = "OPEN"
    /\ IF aai.pc # "registered"
       THEN aai' = [aai EXCEPT !.clientWs.readyState = "CLOSED"]
       ELSE aai' = [aai EXCEPT
                      !.clientWs.readyState = "CLOSED",
                      !.isReady = FALSE,
                      !.audioBuffer = <<>>,
                      !.closeCalls = IF aai.transcriber # NULL THEN @ + 1 ELSE @,
                      !.socket = IF aai.transcriber # NULL /\ @ = "open"
                                 THEN "closing" ELSE @]
    /\ UNCHANGED <<aws, old, raw, pair, web>>

AaiNext ==
    \/ AaiUpstreamOpen
    \/ AaiConnectFails
    \/ AaiRegister
    \/ AaiUpstreamTurn
    \/ AaiUpstreamError
    \/ AaiUpstreamClose
    \/ AaiClientMessage
    \/ AaiClientClose


(***************************************************************************)
(* Claims about the AssemblyAI relay (SpecAai).                            *)
(***************************************************************************)
RECURSIVE Flatten(_)
Flatten(frames) ==
    IF frames = <<>> THEN <<>> ELSE Head(frames) \o Flatten(Tail(frames))

\* The bytes of the accepted messages that make up whole samples, in arrival order.
RECURSIVE AcceptedBytes(_)
AcceptedBytes(accepted) ==
    IF accepted = <<>> THEN <<>>
    ELSE LET a == Head(accepted)
         IN  SubSeq(MessageBytes(a.k, a.byteLength), 1, 2 * (a.byteLength \div 2))
                 \o AcceptedBytes(Tail(accepted))

\* N: the number of samples the accepted messages carried.
AcceptedSamples == Len(AcceptedBytes(aai.accepted)) \div 2

\* The two bytes of sample s, low byte first.
SampleBytes(s) == <<(s % 65536) % 256, (s % 65536) \div 256>>

IsPrefix(p, q) == Len(p) <= Len(q) /\ SubSeq(q, 1, Len(p)) = p

\* The close handler has not emptied the buffer.
AaiBufferKept == aai.clientWs.readyState = "OPEN"

\* C1: after messages carrying N samples were accepted while ready, starting
\* from an empty buffer, floor(N / 800) frames were passed to sendAudio and the
\* buffer retains N mod 800 samples; one message of 1600 samples gives exactly
\* 2 frames and an empty remainder.
C1_FramesAndRemainder ==
    /\ BUFFER_SIZE = 800
    /\ Len(aai.sendAudio) = AcceptedSamples \div BUFFER_SIZE
    /\ AaiBufferKept => Len(aai.audioBuffer) = AcceptedSamples % BUFFER_SIZE
    /\ (Len(aai.accepted) = 1 /\ AcceptedSamples = 1600 /\ AaiBufferKept)
          => (Len(aai.sendAudio) = 2 /\ aai.audioBuffer = <<>>)

\* C1 witness: three accepted messages of 799, 1600 and 799 samples: 3 frames, 798 kept.
C1_Witness ==
    /\ Len(aai.accepted) = 3 /\ AcceptedSamples = 3198
    /\ Len(aai.sendAudio) = 3 /\ Len(aai.audioBuffer) = 798

\* C2: every frame passed to sendAudio has exactly BUFFER_SIZE samples (twice as
\* many bytes), and between handlers the buffer holds fewer than BUFFER_SIZE.
C2_FrameSize ==
    /\ \A i \in 1..Len(aai.sendAudio) : Len(aai.sendAudio[i]) = 2 * BUFFER_SIZE
    /\ Len(aai.audioBuffer) < BUFFER_SIZE

\* C2 witness: a 1600-sample message arrived on top of a 799-sample remainder.
C2_Witness ==
    /\ Len(aai.accepted) = 2 /\ aai.accepted[1].byteLength = 1598
    /\ aai.accepted[2].byteLength = 3200
    /\ Len(aai.sendAudio) = 2 /\ Len(aai.audioBuffer) = 799

\* C3: the frames sent upstream, in send order, followed by the retained buffer
\* are the accepted samples in arrival order: nothing is dropped, duplicated or
\* reordered (once the close handler has emptied the buffer, the frames are a
\* prefix of the accepted samples).
C3_Concatenation ==
    LET up  == Flatten(aai.sendAudio)
        acc == AcceptedBytes(aai.accepted)
    IN  /\ IsPrefix(up, acc)
        /\ AaiBufferKept =>
             /\ Len(up) + 2 * Len(aai.audioBuffer) = Len(acc)
             /\ \A j \in 1..Len(aai.audioBuffer) :
                  SampleBytes(aai.audioBuffer[j])
                      = <<acc[Len(up) + 2 * j - 1], acc[Len(up) + 2 * j]>>

\* C3 witness: a frame was sent that spans two messages and a remainder is kept.
C3_Witness ==
    /\ Len(aai.accepted) >= 2 /\ aai.accepted[1].byteLength = 1598
    /\ Len(aai.sendAudio) >= 1 /\ Len(aai.audioBuffer) > 0 /\ AaiBufferKept

\* C4: a message handled while isReady is false is a no-op: nothing is passed
\* to sendAudio, the buffer and everything else the relay holds stay as they are.
C4_NotReadyNoOp ==
    [][(aai'.nMsgs = aai.nMsgs + 1 /\ ~aai.isReady)
         => /\ aai'.sendAudio = aai.sendAudio
            /\ aai'.audioBuffer = aai.audioBuffer
            /\ aai'.accepted = aai.accepted
            /\ aai'.isReady = aai.isReady
            /\ aai'.transcriber = aai.transcriber
            /\ aai'.clientWs = aai.clientWs
            /\ aai'.closeCalls = aai.closeCalls]_vars

\* C4 witness: after an upstream error left a remainder in the buffer, a Buffer
\* arrived and the handler returned on it.
C4_Witness ==
    /\ aai.pc = "registered" /\ ~aai.isReady /\ aai.ignored > 0
    /\ Len(aai.audioBuffer) > 0 /\ Len(aai.accepted) > 0


\* C11: no message is sent on a client connection that is not open: a turn or
\* error event after the client has closed, or a connect failure after the
\* client has gone, leads to no send.
C11_SendsOnlyWhenOpen ==
    \A i \in 1..Len(aai.clientWs.sends) : aai.clientWs.sends[i].readyState = "OPEN"

\* C12: whenever the client has disconnected, eventually the transcriber has
\* been closed, the readiness flag is false and the sample buffer is empty.
C12_DisconnectReleases ==
    (aai.clientWs.readyState = "CLOSED")
        ~> (/\ aai.closeCalls >= 1 \/ aai.socket = "closed"
            /\ ~aai.isReady
            /\ aai.audioBuffer = <<>>)

\* C13: close() is never invoked twice, and once the client has disconnected
\* it has been invoked exactly once.
C13_ClosedExactlyOnce ==
    /\ aai.closeCalls <= 1
    /\ aai.clientWs.readyState = "CLOSED" => aai.closeCalls = 1


\* C19: isReady becomes true only in the step of the upstream 'open' event; it
\* is false in every state after an upstream error, an upstream close or a
\* handled client disconnect; and audio is passed to sendAudio only in steps
\* that start between the handshake and the first of those events.
C19_ReadyOnlyAfterHandshake ==
    /\ [](aai.isReady => aai.socket = "open" /\ aai.closeCalls = 0)
    /\ [][/\ (aai'.isReady /\ ~aai.isReady)
              => (aai.socket = "connecting" /\ aai'.socket = "open")
          /\ (aai'.sendAudio # aai.sendAudio)
              => (aai.isReady /\ aai.socket = "open" /\ aai.closeCalls = 0)]_vars

\* C19 witness: audio was forwarded after the handshake, the upstream then
\* reported an error, and a Buffer that came after it was not forwarded.
C19_Witness ==
    /\ aai.socket = "errored" /\ ~aai.isReady
    /\ Len(aai.sendAudio) >= 1 /\ aai.ignored >= 1

\* C21: the close handler empties audioBuffer without sending it: every frame
\* passed to sendAudio has BUFFER_SIZE samples, the buffer is empty once the
\* client has closed, and neither the step in which the client closes nor any
\* later step passes anything to sendAudio.
C21_PartialFrameDiscarded ==
    /\ [](\A i \in 1..Len(aai.sendAudio) : Len(aai.sendAudio[i]) = 2 * BUFFER_SIZE)
    /\ [](aai.clientWs.readyState = "CLOSED" => aai.audioBuffer = <<>>)
    /\ [][(aai'.clientWs.readyState = "CLOSED")
            => (aai'.sendAudio = aai.sendAudio)]_vars

\* C21 witness: the client closed while the buffer held a partial frame, which
\* the close handler dropped: fewer samples went upstream than were accepted.
C21_Witness ==
    /\ aai.clientWs.readyState = "CLOSED" /\ aai.closeCalls = 1
    /\ Len(aai.sendAudio) >= 1
    /\ AcceptedSamples % BUFFER_SIZE # 0
    /\ aai.audioBuffer = <<>>

\* The catch block of the setup has run: connect() had rejected.
ConnectFailed ==
    \E i \in 1..Len(aai.clientWs.sends) :
        /\ aai.clientWs.sends[i].msg.type = "error"
        /\ aai.clientWs.sends[i].msg.message = "Failed to initialize: e"

\* C37: once the upstream connect has failed, the error message of the catch
\* block is the one message ever sent to the client (no transcript), no client
\* message has met a handler, nothing has been passed to sendAudio, and the
\* close of the client calls no close of the transcriber; from then on no
\* handler is registered, nothing is forwarded and nothing is sent.
C37_ConnectFailureIsolated ==
    /\ [](ConnectFailed =>
            /\ Len(aai.clientWs.sends) = 1
            /\ aai.sendAudio = <<>>
            /\ aai.accepted = <<>> /\ aai.ignored = 0
            /\ aai.unheard = aai.nMsgs
            /\ aai.closeCalls = 0
            /\ ~aai.isReady /\ aai.audioBuffer = <<>>)
    /\ [][ConnectFailed => /\ aai'.pc = aai.pc
                           /\ aai'.sendAudio = aai.sendAudio
                           /\ aai'.clientWs.sends = aai.clientWs.sends]_vars

\* C37 witness: the connect failed, the client went on sending and then left.
C37_Witness ==
    /\ ConnectFailed
    /\ aai.clientWs.sends[1].readyState = "OPEN"
    /\ aai.nMsgs >= 2
    /\ aai.clientWs.readyState = "CLOSED"

(***************************************************************************)
(* src/server.js: the AWS Transcribe Medical relay.                        *)
(*                                                                         *)
(* A client frame is named by its arrival number.  streams holds the       *)
(* PassThrough objects created so far ([written, ends]); audioStream is    *)
(* the number of one of them.  sessions holds one entry per run of the     *)
(* start branch of the message handler:                                    *)
(*    "starting"  at: await transcribeClient.send(command)                 *)
(*    "reading"   in the for-await loop over TranscriptResultStream         *)
(*    "failed"    the catch block of the start ran                         *)
(*    "ended"     the result stream ended and the finally block ran        *)
(*    "errored"   the result stream threw and the finally block ran        *)
(* transcribeStream is NULL or the number of the session whose result      *)
(* stream it refers to.                                                    *)
(***************************************************************************)
MaxEvents == 1      \* upstream result-stream events on one connection

\* The transcripts of the upstream results, as character sequences.
Transcripts == {<<>>, <<" ">>, <<"a", " ">>}

\* A result: IsPartial, Alternatives[0].Transcript and
\* Alternatives[0].Items?.[0]?.Confidence, which a final result with a text
\* may carry.
Results ==
    {r \in [IsPartial : BOOLEAN, Transcript : Transcripts,
            Confidence : {"undefined", "0.9"}] :
        r.Confidence # "undefined" => (~r.IsPartial /\ r.Transcript = <<"a", " ">>)}

\* An event of the result stream: with or without a TranscriptEvent, whose
\* Results are those of event.TranscriptEvent.Transcript.
UpstreamEvents ==
    [TranscriptEvent : {FALSE}, Results : {<<>>}]
        \cup [TranscriptEvent : {TRUE},
              Results : {<<r>> : r \in Results}
                  \cup {<<r1, r2>> : r1 \in {r \in Results : r.IsPartial
                                                             /\ r.Transcript = <<"a", " ">>},
                                     r2 \in Results}]

IsSpace(c) == c = " "

\* String.prototype.trim
RECURSIVE TrimStart(_)
TrimStart(t) == IF t # <<>> /\ IsSpace(Head(t)) THEN TrimStart(Tail(t)) ELSE t

RECURSIVE TrimEnd(_)
TrimEnd(t) ==
    IF t # <<>> /\ IsSpace(t[Len(t)]) THEN TrimEnd(SubSeq(t, 1, Len(t) - 1)) ELSE t

Trim(t) == TrimEnd(TrimStart(t))

\* Mutant: the transcript is tested without being trimmed.
HasTextUntrimmed(transcript) == transcript # <<>>

\* transcript && transcript.trim()
HasText(transcript) == transcript # <<>> /\ Trim(transcript) # <<>>

\* Mutant: the send is not guarded by the readyState.
ClientOpenAssumed(ws) == TRUE

\* clientWs.readyState === WebSocket.OPEN
ClientOpen(ws) == ws.readyState = "OPEN"

\* if (clientWs.readyState === WebSocket.OPEN) clientWs.send(...)
GuardedSend(ws, msg) ==
    IF ClientOpen(ws) THEN ClientSend(ws, msg)
    ELSE [ws EXCEPT !.skipped = @ \cup {msg.type}]

\* Mutant: the text is sent trimmed.
TranscriptMessageTrimmed(result) ==
    IF ~result.IsPartial
    THEN IF result.Confidence = "undefined"
         THEN [type |-> "transcript", text |-> Trim(result.Transcript),
               is_final |-> TRUE]
         ELSE [type |-> "transcript", text |-> Trim(result.Transcript),
               is_final |-> TRUE, confidence |-> result.Confidence]
    ELSE [type |-> "transcript", text |-> Trim(result.Transcript), is_final |-> FALSE]

\* The message one result gives rise to, as JSON.stringify writes it: a
\* property whose value is undefined is left out.
TranscriptMessage(result) ==
    IF ~result.IsPartial
    THEN IF result.Confidence = "undefined"
         THEN [type |-> "transcript", text |-> result.Transcript, is_final |-> TRUE]
         ELSE [type |-> "transcript", text |-> result.Transcript, is_final |-> TRUE,
               confidence |-> result.Confidence]
    ELSE [type |-> "transcript", text |-> result.Transcript, is_final |-> FALSE]

\* Mutant: the results of an event are gone through from the last to the first.
RECURSIVE ForwardResultsBackwards(_, _)
ForwardResultsBackwards(ws, results) ==
    IF results = <<>> THEN ws
    ELSE ForwardResultsBackwards(
             IF HasText(results[Len(results)].Transcript)
             THEN GuardedSend(ws, TranscriptMessage(results[Len(results)]))
             ELSE ws,
             SubSeq(results, 1, Len(results) - 1))

\* for (const result of results) { ... }
RECURSIVE ForwardResults(_, _)
ForwardResults(ws, results) ==
    IF results = <<>> THEN ws
    ELSE ForwardResults(
             IF HasText(Head(results).Transcript)
             THEN GuardedSend(ws, TranscriptMessage(Head(results)))
             ELSE ws,
             Tail(results))

\* Mutant: the start looks at transcribeStream alone.
StartNeededStreamOnly(isTranscribing, transcribeStream) == transcribeStream = NULL

\* Mutant: only the first frame of a connection starts a session.
StartNeededFirstOnly(isTranscribing, transcribeStream) ==
    ~isTranscribing /\ transcribeStream = NULL /\ aws.sessionCount = 0

\* Mutant: every frame starts a session.
StartNeededAlways(isTranscribing, transcribeStream) == TRUE

\* if (!isTranscribing && !transcribeStream)
StartNeeded(isTranscribing, transcribeStream) ==
    ~isTranscribing /\ transcribeStream = NULL

\* else if (audioStream && isTranscribing)
ContinueNeeded(audioStream, isTranscribing) == audioStream # NULL /\ isTranscribing

\* Mutant: the start does not write the frame that triggered it.
NewAudioStreamEmpty(frame) == [written |-> <<>>, ends |-> 0]

\* audioStream = new PassThrough(); ...; audioStream.write(audioBuffer)
NewAudioStream(frame) ==
    [written |-> <<[frame |-> frame, ready |-> FALSE]>>, ends |-> 0]

\* Mutant: the chunk goes to the front of the stream's queue.
StreamWriteFront(stream, frame, ready) ==
    [stream EXCEPT !.written = <<[frame |-> frame, ready |-> ready]>> \o @]

\* audioStream.write(audioBuffer); ready: the upstream had confirmed the start
\* of the session the stream belongs to.
StreamWrite(stream, frame, ready) ==
    [stream EXCEPT !.written = Append(@, [frame |-> frame, ready |-> ready])]

\* Mutant: the handler forgets the stream without ending it.
EndAudioStreamSkipped(streams, audioStream) == streams

\* if (audioStream) { audioStream.end(); audioStream = null; }
EndAudioStream(streams, audioStream) ==
    IF audioStream # NULL
    THEN [streams EXCEPT ![audioStream].ends = @ + 1]
    ELSE streams

\* The body of the close handler, which is also that of the error handler:
\* isTranscribing = false; if (audioStream) { end; = null }; transcribeStream = null
Teardown(o) ==
    [o EXCEPT !.isTranscribing = FALSE,
              !.streams = EndAudioStream(@, o.audioStream),
              !.audioStream = NULL,
              !.transcribeStream = NULL]

\* The upstream has confirmed the start of the session that reads stream i.
Confirmed(sessions, i) ==
    \E s \in 1..Len(sessions) :
        sessions[s].stream = i /\ sessions[s].state \notin {"starting", "failed"}

AwsInit ==
    aws = [transcribeStream |-> NULL,
           audioStream |-> NULL,
           isTranscribing |-> FALSE,
           sessionCount |-> 0,
           clientWs |-> [readyState |-> "OPEN", sends |-> <<>>, skipped |-> {}],
           streams |-> <<>>,
           sessions |-> <<>>,
           nMsgs |-> 0,                  \* client messages delivered so far
           buffers |-> <<>>,             \* the arrival numbers of the Buffers
           nEvents |-> 0,                \* result-stream events so far
           delivered |-> <<>>,           \* the results of those events, in order
           teardowns |-> 0]              \* runs of the close and error handlers

\* clientWs.on('message'): up to the await, or the whole of the other branches.
AwsClientMessage ==
    /\ aws.clientWs.readyState = "OPEN" /\ aws.nMsgs < MaxMsgs
    /\ \E isBuffer \in BOOLEAN :
         LET k == aws.nMsgs + 1
             heard == [aws EXCEPT !.nMsgs = k,
                                  !.buffers = IF isBuffer THEN Append(@, k) ELSE @]
         IN  IF ~isBuffer
             THEN aws' = heard
             ELSE IF StartNeeded(aws.isTranscribing, aws.transcribeStream)
             THEN /\ Len(aws.sessions) < MaxSessions
                  /\ aws' = [heard EXCEPT
                               !.isTranscribing = TRUE,
                               !.sessionCount = @ + 1,
                               !.streams = Append(@, NewAudioStream(k)),
                               !.audioStream = Len(aws.streams) + 1,
                               !.sessions = Append(@, [state |-> "starting",
                                                       stream |-> Len(aws.streams) + 1,
                                                       trigger |-> k])]
             ELSE IF ContinueNeeded(aws.audioStream, aws.isTranscribing)
             THEN aws' = [heard EXCEPT
                            !.streams[aws.audioStream] =
                                StreamWrite(@, k, Confirmed(aws.sessions, aws.audioStream))]
             ELSE aws' = heard
    /\ UNCHANGED <<aai, old, raw, pair, web>>

\* transcribeClient.send(command) resolves: the result loop starts.
AwsStartResolves ==
    /\ \E s \in 1..Len(aws.sessions) :
         /\ aws.sessions[s].state = "starting"
         /\ aws' = [aws EXCEPT !.transcribeStream = s,
                               !.sessions[s].state = "reading"]
    /\ UNCHANGED <<aai, old, raw, pair, web>>

\* Mutant: the catch block reports the failure and leaves the flag set.
AwsStartFailsKeepsFlag ==
    /\ \E s \in 1..Len(aws.sessions) :
         /\ aws.sessions[s].state = "starting"
         /\ aws' = [aws EXCEPT
                      !.transcribeStream = NULL,
                      !.sessions[s].state = "failed",
                      !.clientWs = GuardedSend(@, [type |-> "error",
                                                   message |-> "Transcription error: e"])]
    /\ UNCHANGED <<aai, old, raw, pair, web>>

\* transcribeClient.send(command) rejects: the catch block of the start.
AwsStartFails ==
    /\ \E s \in 1..Len(aws.sessions) :
         /\ aws.sessions[s].state = "starting"
         /\ aws' = [aws EXCEPT
                      !.isTranscribing = FALSE,
                      !.transcribeStream = NULL,
                      !.sessions[s].state = "failed",
                      !.clientWs = GuardedSend(@, [type |-> "error",
                                                   message |-> "Transcription error: e"])]
    /\ UNCHANGED <<aai, old, raw, pair, web>>

\* One event of the result stream: the body of the for-await loop.
AwsUpstreamEvent ==
    /\ aws.nEvents < MaxEvents
    /\ \E s \in 1..Len(aws.sessions), event \in UpstreamEvents :
         /\ aws.sessions[s].state = "reading"
         /\ aws' = [aws EXCEPT
                      !.nEvents = @ + 1,
                      !.delivered = @ \o event.Results,
                      !.clientWs = IF event.TranscriptEvent
                                   THEN ForwardResults(@, event.Results)
                                   ELSE @]
    /\ UNCHANGED <<aai, old, raw, pair, web>>

\* The result stream ends or throws: the (catch and) finally of the loop.
AwsStreamEnds ==
    /\ \E s \in 1..Len(aws.sessions), how \in {"ended", "errored"} :
         /\ aws.sessions[s].state = "reading"
         /\ aws' = [aws EXCEPT !.isTranscribing = FALSE,
                               !.transcribeStream = NULL,
                               !.sessions[s].state = how]
    /\ UNCHANGED <<aai, old, raw, pair, web>>

\* clientWs.on('close')
AwsClientClose ==
    /\ aws.clientWs.readyState \in {"OPEN", "CLOSING"}
    /\ aws' = [Teardown(aws) EXCEPT !.clientWs.readyState = "CLOSED",
                                    !.teardowns = @ + 1]
    /\ UNCHANGED <<aai, old, raw, pair, web>>

\* clientWs.on('error'): the socket is being torn down; its close event follows.
AwsClientError ==
    /\ aws.clientWs.readyState = "OPEN"
    /\ aws' = [Teardown(aws) EXCEPT !.clientWs.readyState = "CLOSING",
                                    !.teardowns = @ + 1]
    /\ UNCHANGED <<aai, old, raw, pair, web>>

AwsNext ==
    \/ AwsClientMessage
    \/ AwsStartResolves
    \/ AwsStartFails
    \/ AwsUpstreamEvent
    \/ AwsStreamEnds
    \/ AwsClientClose
    \/ AwsClientError


(***************************************************************************)
(* Claims about the relay of src/server.js (SpecAws).                      *)
(***************************************************************************)
\* The frames a stream was given, in write order.
Frames(stream) == [j \in 1..Len(stream.written) |-> stream.written[j].frame]

Increasing(q) == \A i, j \in 1..Len(q) : i < j => q[i] < q[j]

\* The sessions that are starting or whose result stream is being read.
Live(sessions) ==
    {s \in 1..Len(sessions) : sessions[s].state \in {"starting", "reading"}}

\* C5 as stated: no frame is written to (queued in) a session's audio stream
\* before the upstream has confirmed the start of that session.
C5_PreReadyFramesDropped ==
    \A i \in 1..Len(aws.streams) :
        \A j \in 1..Len(aws.streams[i].written) : aws.streams[i].written[j].ready

\* C5 amended: while the start of a session is pending, the session's audio
\* stream holds every Buffer received since the frame that triggered it, that
\* frame first, in arrival order: pre-ready audio is queued, not dropped.
C5_PreReadyFramesQueued ==
    \A s \in 1..Len(aws.sessions) :
        aws.sessions[s].state = "starting" =>
            LET stream == aws.streams[aws.sessions[s].stream]
            IN  /\ Frames(stream)
                     = SelectSeq(aws.buffers, LAMBDA k : k >= aws.sessions[s].trigger)
                /\ \A j \in 1..Len(stream.written) : ~stream.written[j].ready

\* C5 witness: two more frames were queued behind the trigger of a pending start.
C5_Witness ==
    \E s \in 1..Len(aws.sessions) :
        /\ aws.sessions[s].state = "starting"
        /\ Len(aws.streams[aws.sessions[s].stream].written) = 3

\* C6: the first Buffer starts one session, and whatever the interleaving of
\* frames with the pending start and the running session, at most one session
\* of the connection is starting or running at any time.
C6_OneLiveSession ==
    /\ Cardinality(Live(aws.sessions)) <= 1
    /\ Len(aws.buffers) >= 1 => Len(aws.sessions) >= 1
    /\ (Len(aws.buffers) >= 1 /\ aws.sessions[1].state \in {"starting", "reading"})
          => Len(aws.sessions) = 1
    /\ aws.sessionCount = Len(aws.sessions)

\* C6 witness: one session, running, that took frames while its start was
\* pending and after it was confirmed.
C6_Witness ==
    /\ Len(aws.sessions) = 1 /\ aws.sessions[1].state = "reading"
    /\ Len(aws.streams[1].written) = 3
    /\ ~aws.streams[1].written[2].ready /\ aws.streams[1].written[3].ready

\* C9: every audio stream holds the frames written to it once each and in
\* arrival order, the frame that triggered its session first; no frame is in
\* two streams and only Buffers the client sent are written.
C9_WrittenOnceInOrder ==
    /\ \A s \in 1..Len(aws.sessions) :
         LET q == Frames(aws.streams[aws.sessions[s].stream])
         IN  /\ q # <<>> /\ q[1] = aws.sessions[s].trigger
             /\ Increasing(q)
             /\ \A j \in 1..Len(q) : \E b \in 1..Len(aws.buffers) : aws.buffers[b] = q[j]
    /\ \A i, j \in 1..Len(aws.streams) :
         i # j => \A a \in 1..Len(aws.streams[i].written) :
                    \A b \in 1..Len(aws.streams[j].written) :
                       aws.streams[i].written[a].frame # aws.streams[j].written[b].frame

\* C9 witness: a second session was started after the first had taken two frames.
C9_Witness ==
    /\ Len(aws.streams) = 2 /\ Len(aws.streams[1].written) >= 2
    /\ Len(aws.streams[2].written) >= 1

\* C10: every message sent to the client was sent while the client was OPEN.
C10_SendsOnlyWhenOpen ==
    \A i \in 1..Len(aws.clientWs.sends) : aws.clientWs.sends[i].readyState = "OPEN"

\* C10 witness: a transcript arrived from the upstream after the client had
\* closed, and was not sent.
C10_Witness ==
    /\ aws.clientWs.readyState = "CLOSED" /\ "transcript" \in aws.clientWs.skipped

\* C14: over every sequence of close and error events of the client, end() is
\* called at most once on each audio stream, and once the first of these events
\* has been handled audioStream is null, isTranscribing is false and
\* transcribeStream is null.
C14_TeardownOnce ==
    /\ \A i \in 1..Len(aws.streams) : aws.streams[i].ends <= 1
    /\ aws.teardowns >= 1 => /\ aws.audioStream = NULL
                             /\ ~aws.isTranscribing
                             /\ aws.transcribeStream = NULL

\* C15: while the client is open, every upstream session that has failed, at
\* its start or while its result stream was read, has been reported to the
\* client by a message of type "error".
C15_FailureReported ==
    aws.clientWs.readyState = "OPEN" =>
        Len(SelectSeq(aws.clientWs.sends, LAMBDA m : m.msg.type = "error"))
            = Cardinality({s \in 1..Len(aws.sessions) :
                              aws.sessions[s].state \in {"failed", "errored"}})

\* C16 as stated: once a session of the connection has failed or ended, no
\* other session is started on the connection.
C16_NoSessionAfterEnd ==
    \A s, t \in 1..Len(aws.sessions) :
        (s < t) => aws.sessions[s].state \notin {"failed", "ended", "errored"}

\* C16 amended: a session is started only by a Buffer of the open client, when
\* no session is starting or running; and a Buffer that arrives when none is
\* (also after one has failed or ended) does start one.
C16_RestartOnlyByFrame ==
    [][/\ Len(aws'.sessions) # Len(aws.sessions)
          => /\ Len(aws'.sessions) = Len(aws.sessions) + 1
             /\ aws'.nMsgs = aws.nMsgs + 1
             /\ aws'.buffers = Append(aws.buffers, aws'.nMsgs)
             /\ aws'.sessions[Len(aws'.sessions)].trigger = aws'.nMsgs
             /\ aws.clientWs.readyState = "OPEN"
             /\ Live(aws.sessions) = {}
       /\ (aws'.buffers # aws.buffers /\ Live(aws.sessions) = {})
          => Len(aws'.sessions) = Len(aws.sessions) + 1]_vars

\* C16 witness: a second session was started by a frame after the first had
\* ended or failed.
C16_Witness ==
    /\ Len(aws.sessions) = 2
    /\ aws.sessions[1].state \in {"failed", "ended", "errored"}
    /\ aws.sessions[2].state = "reading"

\* The results that give rise to a message: those whose transcript is not blank.
WithText(results) ==
    SelectSeq(results, LAMBDA r : \E i \in 1..Len(r.Transcript) : r.Transcript[i] # " ")

\* The transcript messages sent to the client, in send order.
TranscriptsSent(ws) == SelectSeq(ws.sends, LAMBDA m : m.msg.type = "transcript")

\* C18: the transcript messages sent to the client are, one for one and in the
\* same order, the results the upstream delivered (event by event, result by
\* result) that have a text; while the client is open none is missing.
C18_TranscriptOrder ==
    LET sent == TranscriptsSent(aws.clientWs)
        due  == WithText(aws.delivered)
    IN  /\ Len(sent) <= Len(due)
        /\ aws.clientWs.readyState = "OPEN" => Len(sent) = Len(due)
        /\ \A i \in 1..Len(sent) :
             /\ sent[i].msg.text = due[i].Transcript
             /\ sent[i].msg.is_final = ~due[i].IsPartial

\* C18 witness: one event with a partial and a final result, both forwarded.
C18_Witness ==
    LET sent == TranscriptsSent(aws.clientWs)
    IN  /\ Len(sent) >= 2
        /\ sent[1].msg.is_final # sent[2].msg.is_final

\* C20: once the close handler has run, isTranscribing is false and
\* transcribeStream and audioStream are null, in every later state.
C20_ReleasedAfterClose ==
    aws.clientWs.readyState = "CLOSED" =>
        /\ ~aws.isTranscribing
        /\ aws.transcribeStream = NULL
        /\ aws.audioStream = NULL

\* C32 as stated: whenever a session is starting or its result stream is being
\* read, isTranscribing is true.
C32_LiveIsTranscribing == Live(aws.sessions) # {} => aws.isTranscribing

\* C32 amended: the step in which a session completes or fails (the finally of
\* its loop, the catch of its start) is never taken while a later session is
\* starting or being read, so it resets no state of a later session; and
\* until the client's close or error event, at most one session is starting
\* or being read, and while one is, isTranscribing is true.
C32_NoCrossSessionReset ==
    /\ [](aws.clientWs.readyState = "OPEN"
          => /\ Cardinality(Live(aws.sessions)) <= 1
             /\ Live(aws.sessions) # {} => aws.isTranscribing)
    /\ [][\A s \in Live(aws.sessions) :
            (s \notin Live(aws'.sessions))
            => (\A t \in Live(aws.sessions) \cup Live(aws'.sessions) : t <= s)]_vars

\* C32 witness: the first session's result stream threw, a later frame started
\* a second session, and that one is being read with isTranscribing set.
C32_Witness ==
    /\ aws.clientWs.readyState = "OPEN" /\ Len(aws.sessions) = 2
    /\ aws.sessions[1].state = "errored" /\ aws.sessions[2].state = "reading"
    /\ aws.isTranscribing /\ aws.transcribeStream = 2

\* C33: once the client has disconnected, every audio stream the connection
\* created has been ended, also those of sessions whose start failed or whose
\* upstream ended before a later session was started.
C33_EveryStreamEnded ==
    aws.clientWs.readyState = "CLOSED" =>
        \A i \in 1..Len(aws.streams) : aws.streams[i].ends >= 1

\* The result stream of the session being read ends or throws after its audio
\* input has been ended.
AwsStreamEndsAfterInput ==
    /\ \A s \in 1..Len(aws.sessions) :
          aws.sessions[s].state = "reading" => aws.streams[aws.sessions[s].stream].ends >= 1
    /\ AwsStreamEnds

\* The connection at rest.
AwsReleased ==
    /\ ~aws.isTranscribing
    /\ aws.transcribeStream = NULL
    /\ aws.audioStream = NULL

\* C34: if every pending start settles and every result stream whose audio
\* input has ended completes or fails, then once the client has disconnected
\* the connection reaches, and from then on stays in, the state isTranscribing
\* = false, transcribeStream = null, audioStream = null; and no message is
\* sent to the client after the disconnect.
C34_EventuallyReleased ==
    /\ (aws.clientWs.readyState = "CLOSED") ~> [] AwsReleased
    /\ [][(aws.clientWs.readyState = "CLOSED")
          => (aws'.clientWs.sends = aws.clientWs.sends)]_vars

\* C34 witness: the start that was pending at the disconnect resolved after
\* it, its result stream delivered an event and ended, and the connection is
\* at rest.
C34_Witness ==
    /\ aws.clientWs.readyState = "CLOSED" /\ AwsReleased
    /\ Len(aws.sessions) >= 1
    /\ aws.sessions[Len(aws.sessions)].state \in {"ended", "errored"}
    /\ aws.nEvents >= 1
    /\ "transcript" \in aws.clientWs.skipped

\* The error messages sent to the client, in send order.
ErrorsSent(ws) == SelectSeq(ws.sends, LAMBDA m : m.msg.type = "error")

\* The sessions whose start failed.
FailedStarts(sessions) == {s \in 1..Len(sessions) : sessions[s].state = "failed"}

\* C35: the step in which the start of a session fails sends the client, if it
\* is open, one error message and nothing else (nothing at all if it is not),
\* and leaves isTranscribing false and transcribeStream null; no other step
\* sends an error message, so an open client has received exactly one per
\* failed start; and a session whose start failed never delivers a result.
C35_StartFailureReported ==
    /\ [](/\ Len(ErrorsSent(aws.clientWs)) <= Cardinality(FailedStarts(aws.sessions))
          /\ aws.clientWs.readyState = "OPEN"
             => Len(ErrorsSent(aws.clientWs)) = Cardinality(FailedStarts(aws.sessions)))
    /\ [][/\ (FailedStarts(aws'.sessions) # FailedStarts(aws.sessions))
             => /\ ~aws'.isTranscribing
                /\ aws'.transcribeStream = NULL
                /\ aws'.delivered = aws.delivered
                /\ IF aws.clientWs.readyState = "OPEN"
                   THEN /\ Len(aws'.clientWs.sends) = Len(aws.clientWs.sends) + 1
                        /\ ErrorsSent(aws'.clientWs)
                             = Append(ErrorsSent(aws.clientWs),
                                      aws'.clientWs.sends[Len(aws'.clientWs.sends)])
                   ELSE aws'.clientWs.sends = aws.clientWs.sends
          /\ (FailedStarts(aws'.sessions) = FailedStarts(aws.sessions))
             => (ErrorsSent(aws'.clientWs) = ErrorsSent(aws.clientWs))
          /\ FailedStarts(aws.sessions) \subseteq FailedStarts(aws'.sessions)]_vars

\* C35 witness: two starts failed on an open connection, each reported once,
\* no transcript sent, the relay ready to start again.
C35_Witness ==
    /\ aws.clientWs.readyState = "OPEN"
    /\ Cardinality(FailedStarts(aws.sessions)) = 2
    /\ Len(aws.clientWs.sends) = 2 /\ Len(ErrorsSent(aws.clientWs)) = 2
    /\ ~aws.isTranscribing /\ aws.transcribeStream = NULL

\* A transcript that is empty or made of white space only.
Blank(transcript) == \A i \in 1..Len(transcript) : transcript[i] = " "

\* C38: no result whose transcript is blank is forwarded: every transcript
\* message sent has a text that is not blank, and the messages sent are, in
\* order, the results delivered so far whose transcript is not blank (all of
\* them while the client is open, the first of them otherwise).
C38_BlankNeverForwarded ==
    LET sent == TranscriptsSent(aws.clientWs)
        kept == SelectSeq(aws.delivered, LAMBDA r : ~Blank(r.Transcript))
    IN  /\ \A i \in 1..Len(sent) : ~Blank(sent[i].msg.text)
        /\ Len(sent) <= Len(kept)
        /\ \A i \in 1..Len(sent) : sent[i].msg.text = kept[i].Transcript
        /\ aws.clientWs.readyState = "OPEN" => Len(sent) = Len(kept)

\* C38 witness: an event brought a result with a text and one made of a space;
\* the open client was sent the first and not the second.
C38_Witness ==
    /\ aws.clientWs.readyState = "OPEN"
    /\ Len(aws.delivered) = 2
    /\ ~Blank(aws.delivered[1].Transcript)
    /\ aws.delivered[2].Transcript = <<" ">>
    /\ Len(TranscriptsSent(aws.clientWs)) = 1

\* C29 as stated: every message sent to the client has the properties type,
\* text and is_final and no other, or type and message and no other.
C29_ExactShape ==
    \A i \in 1..Len(aws.clientWs.sends) :
        LET m == aws.clientWs.sends[i].msg
        IN  \/ m.type = "transcript" /\ DOMAIN m = {"type", "text", "is_final"}
            \/ m.type = "error" /\ DOMAIN m = {"type", "message"}

\* C29 amended: a message sent to the client is an error message with type and
\* message, or a transcript message with type, text and is_final and, when it
\* is final and the result has a confidence, that confidence; the k-th
\* transcript message has the transcript of the k-th result with a text,
\* unchanged, and is final exactly when that result is not partial.
C29_MessageShape ==
    LET sent == TranscriptsSent(aws.clientWs)
        due  == WithText(aws.delivered)
    IN  /\ \A i \in 1..Len(aws.clientWs.sends) :
             LET m == aws.clientWs.sends[i].msg
             IN  \/ m.type = "error" /\ DOMAIN m = {"type", "message"}
                 \/ /\ m.type = "transcript"
                    /\ {"type", "text", "is_final"} \subseteq DOMAIN m
                    /\ DOMAIN m \subseteq {"type", "text", "is_final", "confidence"}
        /\ Len(sent) <= Len(due)
        /\ \A k \in 1..Len(sent) :
             /\ sent[k].msg.text = due[k].Transcript
             /\ sent[k].msg.is_final = ~due[k].IsPartial
             /\ "confidence" \in DOMAIN sent[k].msg
                  <=> (~due[k].IsPartial /\ due[k].Confidence # "undefined")
             /\ "confidence" \in DOMAIN sent[k].msg
                  => sent[k].msg.confidence = due[k].Confidence

\* C29 witness: a partial and a final result of one event were forwarded, the
\* final one with its confidence, the text with its trailing space.
C29_Witness ==
    LET sent == TranscriptsSent(aws.clientWs)
    IN  /\ Len(sent) = 2
        /\ ~sent[1].msg.is_final /\ sent[2].msg.is_final
        /\ sent[2].msg.text = <<"a", " ">>
        /\ "confidence" \in DOMAIN sent[2].msg

(***************************************************************************)
(* src/unnamed/part_001: the earlier AWS Transcribe Medical relay.  The    *)
(* whole session, result loop included, runs inside the message handler of *)
(* the frame that triggered it; that frame is written after the try block. *)
(***************************************************************************)
\* if (!isTranscribing)
OldStartNeeded(isTranscribing) == ~isTranscribing

\* if (audioStream && isTranscribing) audioStream.write(audioBuffer), the last
\* statement of the message handler.
OldWrite(o, frame) ==
    IF o.audioStream # NULL /\ o.isTranscribing
    THEN [o EXCEPT !.streams[o.audioStream] =
                       StreamWrite(@, frame, Confirmed(o.sessions, o.audioStream))]
    ELSE o

\* for (const result of results) { ... clientWs.send(...) ... }
RECURSIVE OldForwardResults(_, _)
OldForwardResults(ws, results) ==
    IF results = <<>> THEN ws
    ELSE OldForwardResults(
             IF HasText(Head(results).Transcript)
             THEN ClientSend(ws, TranscriptMessage(Head(results)))
             ELSE ws,
             Tail(results))

OldInit ==
    old = [transcribeStream |-> NULL,
           audioStream |-> NULL,
           isTranscribing |-> FALSE,
           clientWs |-> [readyState |-> "OPEN", sends |-> <<>>],
           streams |-> <<>>,
           sessions |-> <<>>,
           nMsgs |-> 0,
           buffers |-> <<>>,
           nEvents |-> 0]

\* clientWs.on('message'): up to the await of the start branch, or the whole
\* handler when isTranscribing is already true.
OldClientMessage ==
    /\ old.clientWs.readyState = "OPEN" /\ old.nMsgs < MaxMsgs
    /\ \E isBuffer \in BOOLEAN :
         LET k == old.nMsgs + 1
             heard == [old EXCEPT !.nMsgs = k,
                                  !.buffers = IF isBuffer THEN Append(@, k) ELSE @]
         IN  IF ~isBuffer
             THEN old' = heard
             ELSE IF OldStartNeeded(old.isTranscribing)
             THEN /\ Len(old.sessions) < MaxSessions
                  /\ old' = [heard EXCEPT
                               !.streams = Append(@, [written |-> <<>>, ends |-> 0]),
                               !.audioStream = Len(old.streams) + 1,
                               !.sessions = Append(@, [state |-> "starting",
                                                       stream |-> Len(old.streams) + 1,
                                                       trigger |-> k])]
             ELSE old' = OldWrite(heard, k)
    /\ UNCHANGED <<aai, aws, raw, pair, web>>

\* transcribeClient.send(command) resolves: the handler enters its result loop.
OldStartResolves ==
    /\ \E s \in 1..Len(old.sessions) :
         /\ old.sessions[s].state = "starting"
         /\ old' = [old EXCEPT !.transcribeStream = s,
                               !.isTranscribing = TRUE,
                               !.sessions[s].state = "reading"]
    /\ UNCHANGED <<aai, aws, raw, pair, web>>

\* transcribeClient.send(command) rejects, or the result stream throws: the
\* catch block, then the last statement of the handler.
OldSessionFails ==
    /\ \E s \in 1..Len(old.sessions) :
         /\ old.sessions[s].state \in {"starting", "reading"}
         /\ old' = OldWrite(
                [old EXCEPT
                   !.clientWs = ClientSend(@, [type |-> "error",
                                               message |-> "Transcription error: e"]),
                   !.isTranscribing = FALSE,
                   !.sessions[s].state =
                       IF @ = "starting" THEN "failed" ELSE "errored"],
                old.sessions[s].trigger)
    /\ UNCHANGED <<aai, aws, raw, pair, web>>

\* One event of the result stream: the body of the for-await loop.
OldUpstreamEvent ==
    /\ old.nEvents < MaxEvents
    /\ \E s \in 1..Len(old.sessions), event \in UpstreamEvents :
         /\ old.sessions[s].state = "reading"
         /\ old' = [old EXCEPT
                      !.nEvents = @ + 1,
                      !.clientWs = IF event.TranscriptEvent
                                   THEN OldForwardResults(@, event.Results)
                                   ELSE @]
    /\ UNCHANGED <<aai, aws, raw, pair, web>>

\* The result stream ends: the loop and the try block are left, and the last
\* statement of the handler writes the frame the handler was called with.
OldStreamEnds ==
    /\ \E s \in 1..Len(old.sessions) :
         /\ old.sessions[s].state = "reading"
         /\ old' = OldWrite([old EXCEPT !.sessions[s].state = "ended"],
                            old.sessions[s].trigger)
    /\ UNCHANGED <<aai, aws, raw, pair, web>>

\* clientWs.on('close')
OldClientClose ==
    /\ old.clientWs.readyState \in {"OPEN", "CLOSING"}
    /\ old' = [old EXCEPT
                 !.clientWs.readyState = "CLOSED",
                 !.isTranscribing = FALSE,
                 !.streams = EndAudioStream(@, old.audioStream),
                 !.audioStream = NULL,
                 !.transcribeStream = NULL]
    /\ UNCHANGED <<aai, aws, raw, pair, web>>

\* clientWs.on('error'): the socket is being torn down; its close event follows.
OldClientError ==
    /\ old.clientWs.readyState = "OPEN"
    /\ old' = [old EXCEPT
                 !.clientWs.readyState = "CLOSING",
                 !.isTranscribing = FALSE,
                 !.streams = EndAudioStream(@, old.audioStream),
                 !.audioStream = NULL]
    /\ UNCHANGED <<aai, aws, raw, pair, web>>

OldNext ==
    \/ OldClientMessage
    \/ OldStartResolves
    \/ OldSessionFails
    \/ OldUpstreamEvent
    \/ OldStreamEnds
    \/ OldClientClose
    \/ OldClientError

(***************************************************************************)
(* Claims about the relay of src/unnamed/part_001 (SpecOld).               *)
(***************************************************************************)
\* C7: a frame that arrives while the start triggered by an earlier frame is
\* pending starts no second session: at most one session of the connection is
\* starting or running at any time.
C7_OneLiveSession == Cardinality(Live(old.sessions)) <= 1

\* C8: the frames written to a session's audio stream are in client order, and
\* the first of them is the frame that triggered the session.
C8_TriggerFirstInOrder ==
    \A s \in 1..Len(old.sessions) :
        LET q == Frames(old.streams[old.sessions[s].stream])
        IN  q # <<>> => (q[1] = old.sessions[s].trigger /\ Increasing(q))

\* C36: whenever isTranscribing is true, a session that is being read reads
\* the current audio stream; and no frame is written to an audio stream whose
\* session is no longer starting or being read when the write is made.
C36_WritesReachLiveSession ==
    /\ [](old.isTranscribing
          => \E s \in Live(old.sessions) :
                 /\ old.sessions[s].state = "reading"
                 /\ old.sessions[s].stream = old.audioStream)
    /\ [][\A i \in 1..Len(old.streams) :
            (old'.streams[i].written # old.streams[i].written)
            => (\E s \in Live(old'.sessions) : old'.sessions[s].stream = i)]_vars

(***************************************************************************)
(* src/unnamed/part_000, first program: the AssemblyAI relay that forwards  *)
(* each client message as it is.                                            *)
(***************************************************************************)

RawInit ==
    raw = [pc |-> "connect",             \* at: await transcriber.connect()
           transcriber |-> 1,
           isTranscriberReady |-> FALSE,
           socket |-> "connecting",      \* the SDK's upstream socket
           sendAudio |-> <<>>,           \* calls of transcriber.sendAudio
           closeCalls |-> 0,             \* calls of transcriber.close()
           clientWs |-> [readyState |-> "OPEN", sends |-> <<>>],
           nMsgs |-> 0,
           nTurns |-> 0,
           errors |-> 0]                 \* runs of the upstream error handler

\* transcriber.on('open'); connect() resolves with it and the client handlers
\* are registered in the same continuation.
RawUpstreamOpen ==
    /\ raw.pc = "connect" /\ raw.socket = "connecting"
    /\ raw' = [raw EXCEPT !.socket = "open", !.isTranscriberReady = TRUE,
                          !.pc = "registered"]
    /\ UNCHANGED <<aai, aws, old, pair, web>>

\* connect() rejects: the catch block reports it to the client.
RawConnectFails ==
    /\ raw.pc = "connect" /\ raw.socket = "connecting"
    /\ raw' = [raw EXCEPT
                 !.socket = "closed", !.pc = "failed",
                 !.clientWs = ClientSend(@, [type |-> "error",
                                             message |-> "Failed to initialize: e"])]
    /\ UNCHANGED <<aai, aws, old, pair, web>>

\* transcriber.on('turn')
RawUpstreamTurn ==
    /\ raw.socket \in {"open", "closing"} /\ raw.nTurns < MaxTurns
    /\ \E end_of_turn \in BOOLEAN :
         raw' = [raw EXCEPT
                   !.nTurns = @ + 1,
                   !.clientWs = ClientSend(@, [type |-> "transcript", text |-> "t",
                                               is_final |-> end_of_turn])]
    /\ UNCHANGED <<aai, aws, old, pair, web>>

\* transcriber.on('error'): the error is sent to the client and nothing else
\* is done; the upstream socket failed and its close event follows.
RawUpstreamError ==
    /\ raw.socket \in {"connecting", "open", "closing"}
    /\ raw' = [raw EXCEPT
                 !.socket = "errored",
                 !.errors = @ + 1,
                 !.clientWs = ClientSend(@, [type |-> "error", message |-> "e"])]
    /\ UNCHANGED <<aai, aws, old, pair, web>>

\* transcriber.on('close')
RawUpstreamClose ==
    /\ raw.socket \in {"open", "errored", "closing"}
    /\ raw' = [raw EXCEPT !.socket = "closed", !.isTranscriberReady = FALSE]
    /\ UNCHANGED <<aai, aws, old, pair, web>>

\* if (Buffer.isBuffer(message) && transcriber && isTranscriberReady)
RawMessageAccepted(message, transcriber, isTranscriberReady) ==
    message.isBuffer /\ transcriber # NULL /\ isTranscriberReady

\* clientWs.on('message'), once registered: the message goes to sendAudio whole.
RawClientMessage ==
    /\ raw.clientWs.readyState = "OPEN" /\ raw.nMsgs < MaxMsgs
    /\ \E m \in ClientMessages :
         LET k == raw.nMsgs + 1
             message == [isBuffer |-> m.isBuffer,
                         bytes |-> MessageBytes(k, m.byteLength)]
         IN  IF /\ raw.pc = "registered"
                /\ RawMessageAccepted(message, raw.transcriber, raw.isTranscriberReady)
             THEN raw' = [raw EXCEPT
                            !.nMsgs = k,
                            !.sendAudio = Append(@, [audio |-> message.bytes,
                                                     errors |-> raw.errors])]
             ELSE raw' = [raw EXCEPT !.nMsgs = k]
    /\ UNCHANGED <<aai, aws, old, pair, web>>

\* clientWs.on('close'), once registered: up to the await on transcriber.close().
RawClientClose ==
    /\ raw.clientWs.readyState = "OPEN"
    /\ IF raw.pc # "registered"
       THEN raw' = [raw EXCEPT !.clientWs.readyState = "CLOSED"]
       ELSE raw' = [raw EXCEPT
                      !.clientWs.readyState = "CLOSED",
                      !.isTranscriberReady = FALSE,
                      !.closeCalls = IF raw.transcriber # NULL THEN @ + 1 ELSE @,
                      !.socket = IF raw.transcriber # NULL /\ @ = "open"
                                 THEN "closing" ELSE @]
    /\ UNCHANGED <<aai, aws, old, pair, web>>

RawNext ==
    \/ RawUpstreamOpen
    \/ RawConnectFails
    \/ RawUpstreamTurn
    \/ RawUpstreamError
    \/ RawUpstreamClose
    \/ RawClientMessage
    \/ RawClientClose

\* C17: once the upstream error has been forwarded to the client, no client
\* frame is passed to sendAudio any more, and the transcriber has been closed
\* by the time the upstream has nothing more to deliver.
C17_ErrorEndsSession ==
    /\ \A i \in 1..Len(raw.sendAudio) : raw.sendAudio[i].errors = 0
    /\ (raw.errors >= 1 /\ raw.socket = "closed") => raw.closeCalls >= 1

(***************************************************************************)
(* Two client connections in one process.  Each run of the connection      *)
(* callback has its own closure variables; the streams and transcribers    *)
(* are objects of the one heap.  The process runs src/server.js or         *)
(* src/unnamed/part_002.                                                   *)
(***************************************************************************)
PairMsgs == 1       \* client messages, and upstream transcript events, per connection

Conns == {"A", "B"}

ConnNo(c) == IF c = "A" THEN 1 ELSE 2

\* Mutant: the variables are declared once, outside the connection callback.
ClosureShared(c) == "A"

\* let ... inside wss.on('connection', ...): one set of variables per connection.
Closure(c) == c

\* The transcript events the upstream delivers here: one final result with a text.
PairUpstreamEvents ==
    {e \in UpstreamEvents : e.TranscriptEvent /\ Len(e.Results) = 1
                              /\ e.Results[1].Transcript = <<"a", " ">>
                              /\ ~e.Results[1].IsPartial
                              /\ e.Results[1].Confidence = "undefined"}

PairInit ==
    \E program \in {"server.js", "part_002"} :
      pair = [program |-> program,
              scope |-> [c \in Conns |->
                           [transcribeStream |-> NULL, audioStream |-> NULL,
                            isTranscribing |-> FALSE, sessionCount |-> 0,
                            transcriber |-> IF program = "part_002"
                                            THEN ConnNo(Closure(c)) ELSE NULL,
                            isReady |-> FALSE, audioBuffer |-> <<>>]],
              pc |-> [c \in Conns |-> "connect"],   \* part_002: where the callback is
              clientWs |-> [c \in Conns |->
                              [readyState |-> "OPEN", sends |-> <<>>, skipped |-> {}]],
              streams |-> <<>>,          \* the PassThrough objects created
              sessions |-> <<>>,         \* the upstream sessions requested
              transcribers |->           \* the transcriber objects created
                  IF program = "part_002"
                  THEN [i \in 1..2 |-> [owner |-> IF i = 1 THEN "A" ELSE "B",
                                        socket |-> "connecting",
                                        sendAudio |-> <<>>, closeCalls |-> 0]]
                  ELSE <<>>,
              nMsgs |-> [c \in Conns |-> 0],
              nEvents |-> [c \in Conns |-> 0]]

\* server.js, clientWs.on('message') of connection c.
PairAwsClientMessage(c) ==
    /\ pair.program = "server.js"
    /\ pair.clientWs[c].readyState = "OPEN" /\ pair.nMsgs[c] < PairMsgs
    /\ \E isBuffer \in {TRUE} :
         LET v == Closure(c)
             sc == pair.scope[v]
             k == pair.nMsgs[c] + 1
             frame == <<c, k>>
             heard == [pair EXCEPT !.nMsgs[c] = k]
         IN  IF ~isBuffer
             THEN pair' = heard
             ELSE IF StartNeeded(sc.isTranscribing, sc.transcribeStream)
             THEN pair' = [heard EXCEPT
                             !.scope[v].isTranscribing = TRUE,
                             !.scope[v].sessionCount = @ + 1,
                             !.streams = Append(@, [owner |-> c] @@ NewAudioStream(frame)),
                             !.scope[v].audioStream = Len(pair.streams) + 1,
                             !.sessions = Append(@, [conn |-> c, state |-> "starting",
                                                     stream |-> Len(pair.streams) + 1])]
             ELSE IF ContinueNeeded(sc.audioStream, sc.isTranscribing)
             THEN pair' = [heard EXCEPT
                             !.streams[sc.audioStream] =
                                 StreamWrite(@, frame,
                                             Confirmed(pair.sessions, sc.audioStream))]
             ELSE pair' = heard
    /\ UNCHANGED <<aai, aws, old, raw, web>>

\* server.js, transcribeClient.send(command) of connection c resolves.
PairAwsStartResolves(c) ==
    /\ pair.program = "server.js"
    /\ \E s \in 1..Len(pair.sessions) :
         /\ pair.sessions[s].conn = c /\ pair.sessions[s].state = "starting"
         /\ pair' = [pair EXCEPT !.scope[Closure(c)].transcribeStream = s,
                                 !.sessions[s].state = "reading"]
    /\ UNCHANGED <<aai, aws, old, raw, web>>

\* server.js, transcribeClient.send(command) of connection c rejects.
PairAwsStartFails(c) ==
    /\ pair.program = "server.js"
    /\ \E s \in 1..Len(pair.sessions) :
         /\ pair.sessions[s].conn = c /\ pair.sessions[s].state = "starting"
         /\ pair' = [pair EXCEPT
                       !.scope[Closure(c)].isTranscribing = FALSE,
                       !.scope[Closure(c)].transcribeStream = NULL,
                       !.sessions[s].state = "failed",
                       !.clientWs[c] = GuardedSend(@, [type |-> "error",
                                                       message |-> "Transcription error: e"])]
    /\ UNCHANGED <<aai, aws, old, raw, web>>

\* server.js, one event of the result stream of a session of connection c.
PairAwsUpstreamEvent(c) ==
    /\ pair.program = "server.js"
    /\ pair.nEvents[c] < PairMsgs
    /\ \E s \in 1..Len(pair.sessions), event \in PairUpstreamEvents :
         /\ pair.sessions[s].conn = c /\ pair.sessions[s].state = "reading"
         /\ pair' = [pair EXCEPT
                       !.nEvents[c] = @ + 1,
                       !.clientWs[c] = ForwardResults(@, event.Results)]
    /\ UNCHANGED <<aai, aws, old, raw, web>>

\* server.js, the result stream of a session of connection c throws.
PairAwsStreamEnds(c) ==
    /\ pair.program = "server.js"
    /\ \E s \in 1..Len(pair.sessions), how \in {"errored"} :
         /\ pair.sessions[s].conn = c /\ pair.sessions[s].state = "reading"
         /\ pair' = [pair EXCEPT !.scope[Closure(c)].isTranscribing = FALSE,
                                 !.scope[Closure(c)].transcribeStream = NULL,
                                 !.sessions[s].state = how]
    /\ UNCHANGED <<aai, aws, old, raw, web>>

\* server.js, clientWs.on('close') (closed = TRUE) and clientWs.on('error').
PairAwsClientGone(c, closed) ==
    /\ pair.program = "server.js"
    /\ pair.clientWs[c].readyState \in (IF closed THEN {"OPEN", "CLOSING"} ELSE {"OPEN"})
    /\ LET v == Closure(c)
           sc == pair.scope[v]
           t == Teardown([isTranscribing |-> sc.isTranscribing,
                          streams |-> pair.streams,
                          audioStream |-> sc.audioStream,
                          transcribeStream |-> sc.transcribeStream])
       IN  pair' = [pair EXCEPT
                      !.scope[v].isTranscribing = t.isTranscribing,
                      !.scope[v].audioStream = t.audioStream,
                      !.scope[v].transcribeStream = t.transcribeStream,
                      !.streams = t.streams,
                      !.clientWs[c].readyState = IF closed THEN "CLOSED" ELSE "CLOSING"]
    /\ UNCHANGED <<aai, aws, old, raw, web>>

PairAwsNext ==
    \E c \in Conns :
        \/ PairAwsClientMessage(c)
        \/ PairAwsStartResolves(c)
        \/ PairAwsStartFails(c)
        \/ PairAwsUpstreamEvent(c)
        \/ PairAwsStreamEnds(c)
        \/ PairAwsClientGone(c, TRUE)
        \/ PairAwsClientGone(c, FALSE)

\* part_002, transcriber.on('open') of the transcriber of connection c.
PairAaiUpstreamOpen(c) ==
    /\ pair.program = "part_002"
    /\ pair.pc[c] = "connect" /\ pair.transcribers[ConnNo(c)].socket = "connecting"
    /\ pair' = [pair EXCEPT !.transcribers[ConnNo(c)].socket = "open",
                            !.scope[Closure(c)].isReady = TRUE,
                            !.pc[c] = "delay"]
    /\ UNCHANGED <<aai, aws, old, raw, web>>

\* part_002, connect() of connection c rejects: the catch block.
PairAaiConnectFails(c) ==
    /\ pair.program = "part_002"
    /\ pair.pc[c] = "connect" /\ pair.transcribers[ConnNo(c)].socket = "connecting"
    /\ pair' = [pair EXCEPT
                  !.transcribers[ConnNo(c)].socket = "closed",
                  !.pc[c] = "failed",
                  !.clientWs[c] = ClientSend(@, [type |-> "error",
                                                 message |-> "Failed to initialize: e"])]
    /\ UNCHANGED <<aai, aws, old, raw, web>>

\* part_002, the 100 ms timer of connection c fires.
PairAaiRegister(c) ==
    /\ pair.program = "part_002"
    /\ pair.pc[c] = "delay"
    /\ pair' = [pair EXCEPT !.pc[c] = "registered"]
    /\ UNCHANGED <<aai, aws, old, raw, web>>

\* part_002, transcriber.on('turn') of the transcriber of connection c.
PairAaiUpstreamTurn(c) ==
    /\ pair.program = "part_002"
    /\ pair.transcribers[ConnNo(c)].socket \in {"open", "closing"}
    /\ pair.nEvents[c] < PairMsgs
    /\ pair' = [pair EXCEPT
                  !.nEvents[c] = @ + 1,
                  !.clientWs[c] = ClientSend(@, [type |-> "transcript", text |-> "t",
                                                 is_final |-> TRUE])]
    /\ UNCHANGED <<aai, aws, old, raw, web>>

\* part_002, transcriber.on('error') of the transcriber of connection c.
PairAaiUpstreamError(c) ==
    /\ pair.program = "part_002"
    /\ pair.transcribers[ConnNo(c)].socket \in {"connecting", "open", "closing"}
    /\ pair' = [pair EXCEPT
                  !.transcribers[ConnNo(c)].socket = "errored",
                  !.scope[Closure(c)].isReady = FALSE,
                  !.clientWs[c] = ClientSend(@, [type |-> "error", message |-> "e"])]
    /\ UNCHANGED <<aai, aws, old, raw, web>>

\* part_002, transcriber.on('close') of the transcriber of connection c.
PairAaiUpstreamClose(c) ==
    /\ pair.program = "part_002"
    /\ pair.transcribers[ConnNo(c)].socket \in {"open", "errored", "closing"}
    /\ pair' = [pair EXCEPT !.transcribers[ConnNo(c)].socket = "closed",
                            !.scope[Closure(c)].isReady = FALSE]
    /\ UNCHANGED <<aai, aws, old, raw, web>>

\* part_002, clientWs.on('message') of connection c, once registered.
PairAaiClientMessage(c) ==
    /\ pair.program = "part_002"
    /\ pair.pc[c] = "registered"
    /\ pair.clientWs[c].readyState = "OPEN" /\ pair.nMsgs[c] < PairMsgs
    /\ \E byteLength \in {1598} :
         LET v == Closure(c)
             sc == pair.scope[v]
             k == pair.nMsgs[c] + 1
             message == [isBuffer |-> TRUE,
                         bytes |-> MessageBytes(8 * ConnNo(c) + k, byteLength)]
         IN  IF ~MessageAccepted(message, sc.isReady, sc.transcriber)
             THEN pair' = [pair EXCEPT !.nMsgs[c] = k]
             ELSE LET r == ChunkLoop(PushSamples(sc.audioBuffer, Int16View(message.bytes)),
                                     pair.transcribers[sc.transcriber].sendAudio)
                  IN  pair' = [pair EXCEPT
                                 !.nMsgs[c] = k,
                                 !.scope[v].audioBuffer = r.audioBuffer,
                                 !.transcribers[sc.transcriber].sendAudio = r.sendAudio]
    /\ UNCHANGED <<aai, aws, old, raw, web>>

\* part_002, clientWs.on('close') of connection c, once registered.
PairAaiClientClose(c) ==
    /\ pair.program = "part_002"
    /\ pair.clientWs[c].readyState = "OPEN"
    /\ LET v == Closure(c)
           t == pair.scope[v].transcriber
       IN  IF pair.pc[c] # "registered"
           THEN pair' = [pair EXCEPT !.clientWs[c].readyState = "CLOSED"]
           ELSE pair' = [pair EXCEPT
                           !.clientWs[c].readyState = "CLOSED",
                           !.scope[v].isReady = FALSE,
                           !.scope[v].audioBuffer = <<>>,
                           !.transcribers =
                               IF t = NULL THEN @
                               ELSE [@ EXCEPT ![t].closeCalls = @ + 1,
                                              ![t].socket = IF @ = "open"
                                                            THEN "closing" ELSE @]]
    /\ UNCHANGED <<aai, aws, old, raw, web>>

PairAaiNext ==
    \E c \in Conns :
        \/ PairAaiUpstreamOpen(c)
        \/ PairAaiConnectFails(c)
        \/ PairAaiRegister(c)
        \/ PairAaiUpstreamTurn(c)
        \/ PairAaiUpstreamError(c)
        \/ PairAaiUpstreamClose(c)
        \/ PairAaiClientMessage(c)
        \/ PairAaiClientClose(c)

PairNext == PairAwsNext \/ PairAaiNext

\* What belongs to connection d: its closure variables, its client socket, its
\* message and event counts, and the streams, sessions and transcriber that
\* were created for it.
PairView(d) ==
    [scope |-> pair.scope[d],
     clientWs |-> pair.clientWs[d],
     pc |-> pair.pc[d],
     nMsgs |-> pair.nMsgs[d],
     nEvents |-> pair.nEvents[d],
     streams |-> [i \in {j \in 1..Len(pair.streams) : pair.streams[j].owner = d}
                     |-> pair.streams[i]],
     sessions |-> [i \in {j \in 1..Len(pair.sessions) : pair.sessions[j].conn = d}
                      |-> pair.sessions[i]],
     transcribers |-> [i \in {j \in 1..Len(pair.transcribers) :
                                  pair.transcribers[j].owner = d}
                          |-> pair.transcribers[i]]]

\* C22: every step is an event on one connection and leaves what belongs to
\* the other connection as it was: its flags, buffer, streams, sessions and
\* transcriber, and the messages sent to its client.
C22_ConnectionsIndependent ==
    [][\E c \in Conns : \A d \in Conns \ {c} : PairView(d)' = PairView(d)]_vars

\* C22 witness (server.js): the session of A failed while that of B was being
\* read, and B's client has since received a transcript.
C22_Witness ==
    /\ pair.program = "server.js"
    /\ \E s, t \in 1..Len(pair.sessions) :
         /\ pair.sessions[s].conn = "A" /\ pair.sessions[s].state = "errored"
         /\ pair.sessions[t].conn = "B" /\ pair.sessions[t].state = "reading"
    /\ pair.clientWs["A"].readyState = "CLOSED"
    /\ Len(pair.clientWs["B"].sends) = 1
    /\ pair.scope["B"].isTranscribing

(***************************************************************************)
(* The HTTP handlers.  The process runs src/server.js (report, Gmail),     *)
(* src/combined_server.js (report, upload) or src/unnamed/part_002         *)
(* (report, upload with rename).                                           *)
(***************************************************************************)
MaxReqs == 2        \* HTTP requests received by the process
MaxGmailReqs == 3   \* the same, for the requests to the Gmail routes

\* The findings field of the parsed JSON body: absent, null, or a string
\* (empty, blank, or a text).
FindingsValues ==
    [type : {"undefined", "null"}, chars : {<<>>}]
        \cup [type : {"string"}, chars : {<<>>, <<" ">>, <<"f", "g">>}]

\* Mutant: only an absent field is refused.
NotMissingOnly(v) == v.type = "undefined"

\* !findings : ToBoolean of undefined, null and "" is false.
Not(v) == v.type \in {"undefined", "null"} \/ (v.type = "string" /\ v.chars = <<>>)

\* `${findings}` in a template literal, for a string.
TemplateValue(v) == v.chars

\* Mutant: the findings are left out of the user text.
UserTextWithout(program, findings) ==
    IF program = "server.js"
    THEN <<"NUCLEAR_MEDICINE_SYSTEM_PROMPT", "\n\n",
           "Generate a nuclear medicine PET/CT report ... unremarkable areas:\n\n">>
    ELSE <<"Generate a radiology report for these findings: ">>

\* The text the backend is given for the findings: the prompt of server.js,
\* the content of the user message of the other two programs.
UserText(program, findings) ==
    IF program = "server.js"
    THEN <<"NUCLEAR_MEDICINE_SYSTEM_PROMPT", "\n\n",
           "Generate a nuclear medicine PET/CT report ... unremarkable areas:\n\n">>
             \o TemplateValue(findings)
    ELSE <<"Generate a radiology report for these findings: ">>
             \o TemplateValue(findings)

\* The texts a backend returns and the messages of the errors it throws.
BackendTexts == {<<>>, <<"r">>}
BackendErrors == {"e1", "e2"}

\* Mutant: the error's message is not passed on.
ErrorBodyBare(error, message) == [error |-> error]

\* { error: '...', details: error.message }
ErrorBody(error, message) == [error |-> error, details |-> message]

\* res.status(status).json(body), or res.json(body) with status 200.
Respond(w, i, status, body) ==
    [w EXCEPT !.reqs[i].responses = Append(@, [status |-> status, body |-> body]),
              !.reqs[i].stage = "done"]

\* req.file.path of request i, and req.file.path + '.webm'.
TempPath(i) == [upload |-> i, ext |-> ""]
WebmPath(path) == [path EXCEPT !.ext = @ \o ".webm"]

\* req.file of a request that came without a file.
NoFile == [upload |-> NULL, ext |-> ""]

\* A request as it reaches its handler.
NewRequest(route, findings) ==
    [route |-> route, findings |-> findings, file |-> NoFile, stage |-> "received",
     outcome |-> "none", returned |-> <<>>, responses |-> <<>>]

\* A request body without a findings field.
NoFindings == [type |-> "undefined", chars |-> <<>>]

WebInit ==
    \E program \in {"server.js", "combined_server.js", "part_002"} :
      web = [program |-> program,
             userTokens |-> NULL,        \* server.js: let userTokens = null
             reqs |-> <<>>,              \* the requests received, in arrival order
             calls |-> <<>>,             \* the calls made to the backends
             disk |-> {},                \* the paths that exist under uploads/
             rejections |-> 0]           \* handler promises that rejected

\* app.post('/api/generate-report'): up to the await on the backend call.
ReportRequest ==
    /\ Len(web.reqs) < MaxReqs
    /\ \E findings \in FindingsValues :
         LET i == Len(web.reqs) + 1
             got == [web EXCEPT !.reqs = Append(@, NewRequest("generate-report",
                                                               findings))]
         IN  IF Not(findings)
             THEN web' = Respond(got, i, 400, [error |-> "Findings are required"])
             ELSE web' = [got EXCEPT
                            !.reqs[i].stage = "pending",
                            !.calls = Append(@, [req |-> i, backend |-> "text",
                                                 userText |-> UserText(web.program,
                                                                       findings)])]
    /\ UNCHANGED <<aai, aws, old, raw, pair>>

\* Mutant: the handler keeps what it served in the module-level variable.
ReportBackendResolvesKeeps ==
    /\ \E i \in 1..Len(web.reqs), text \in BackendTexts :
         /\ web.reqs[i].route = "generate-report" /\ web.reqs[i].stage = "pending"
         /\ web' = Respond([web EXCEPT !.reqs[i].outcome = "resolved",
                                       !.reqs[i].returned = text,
                                       !.userTokens = i],
                           i, 200, [report |-> text])
    /\ UNCHANGED <<aai, aws, old, raw, pair>>

\* The backend call resolves: res.json({ report: ... }).
ReportBackendResolves ==
    /\ \E i \in 1..Len(web.reqs), text \in BackendTexts :
         /\ web.reqs[i].route = "generate-report" /\ web.reqs[i].stage = "pending"
         /\ web' = Respond([web EXCEPT !.reqs[i].outcome = "resolved",
                                       !.reqs[i].returned = text],
                           i, 200, [report |-> text])
    /\ UNCHANGED <<aai, aws, old, raw, pair>>

\* The backend call rejects: the catch block.
ReportBackendRejects ==
    /\ \E i \in 1..Len(web.reqs), message \in BackendErrors :
         /\ web.reqs[i].route = "generate-report" /\ web.reqs[i].stage = "pending"
         /\ web' = Respond([web EXCEPT !.reqs[i].outcome = "rejected",
                                       !.reqs[i].returned = message],
                           i, 500, ErrorBody("Failed to generate report", message))
    /\ UNCHANGED <<aai, aws, old, raw, pair>>

ReportNext ==
    \/ ReportRequest
    \/ ReportBackendResolves
    \/ ReportBackendRejects

\* server.js, app.get('/auth/google/callback'): up to the await on getToken.
GmailCallbackRequest ==
    /\ web.program = "server.js"
    /\ Len(web.reqs) < MaxGmailReqs
    /\ web' = [web EXCEPT !.reqs = Append(@, [NewRequest("oauth-callback", NoFindings)
                                                EXCEPT !.stage = "pending"])]
    /\ UNCHANGED <<aai, aws, old, raw, pair>>

\* getToken resolves: userTokens = tokens; res.redirect('/?gmail=connected').
GmailCallbackResolves ==
    /\ \E i \in 1..Len(web.reqs) :
         /\ web.reqs[i].route = "oauth-callback" /\ web.reqs[i].stage = "pending"
         /\ web' = Respond([web EXCEPT !.userTokens = i], i, 302,
                           [location |-> "/?gmail=connected"])
    /\ UNCHANGED <<aai, aws, old, raw, pair>>

\* getToken rejects: res.redirect('/?gmail=error').
GmailCallbackRejects ==
    /\ \E i \in 1..Len(web.reqs) :
         /\ web.reqs[i].route = "oauth-callback" /\ web.reqs[i].stage = "pending"
         /\ web' = Respond(web, i, 302, [location |-> "/?gmail=error"])
    /\ UNCHANGED <<aai, aws, old, raw, pair>>

\* server.js, app.get('/api/gmail/status')
GmailStatus ==
    /\ web.program = "server.js"
    /\ Len(web.reqs) < MaxGmailReqs
    /\ web' = Respond([web EXCEPT !.reqs = Append(@, NewRequest("gmail-status",
                                                                NoFindings))],
                      Len(web.reqs) + 1, 200,
                      [connected |-> web.userTokens # NULL])
    /\ UNCHANGED <<aai, aws, old, raw, pair>>

\* server.js, app.get('/api/gmail/disconnect')
GmailDisconnect ==
    /\ web.program = "server.js"
    /\ Len(web.reqs) < MaxGmailReqs
    /\ web' = Respond([web EXCEPT !.userTokens = NULL,
                                  !.reqs = Append(@, NewRequest("gmail-disconnect",
                                                                NoFindings))],
                      Len(web.reqs) + 1, 200, [success |-> TRUE])
    /\ UNCHANGED <<aai, aws, old, raw, pair>>

\* server.js, app.post('/api/gmail/send'): up to the await on getProfile.
GmailSendRequest ==
    /\ web.program = "server.js"
    /\ Len(web.reqs) < MaxGmailReqs
    /\ \E complete \in BOOLEAN :
         LET i == Len(web.reqs) + 1
             got == [web EXCEPT !.reqs = Append(@, NewRequest("gmail-send", NoFindings))]
         IN  IF web.userTokens = NULL
             THEN web' = Respond(got, i, 401,
                                 [error |-> "Gmail not connected. Please connect first."])
             ELSE IF ~complete
             THEN web' = Respond(got, i, 400,
                                 [error |-> "Missing required fields: to, subject, report"])
             ELSE web' = [got EXCEPT
                            !.reqs[i].stage = "profile",
                            !.calls = Append(@, [req |-> i, backend |-> "getProfile",
                                                 userText |-> <<>>])]
    /\ UNCHANGED <<aai, aws, old, raw, pair>>

\* getProfile resolves: the email is built and messages.send is awaited.
GmailProfileResolves ==
    /\ \E i \in 1..Len(web.reqs) :
         /\ web.reqs[i].route = "gmail-send" /\ web.reqs[i].stage = "profile"
         /\ web' = [web EXCEPT
                      !.reqs[i].stage = "sending",
                      !.calls = Append(@, [req |-> i, backend |-> "messages.send",
                                           userText |-> <<>>])]
    /\ UNCHANGED <<aai, aws, old, raw, pair>>

\* messages.send resolves: res.json({ success: true, ... }).
GmailSendResolves ==
    /\ \E i \in 1..Len(web.reqs) :
         /\ web.reqs[i].route = "gmail-send" /\ web.reqs[i].stage = "sending"
         /\ web' = Respond([web EXCEPT !.reqs[i].outcome = "resolved"],
                           i, 200, [success |-> TRUE])
    /\ UNCHANGED <<aai, aws, old, raw, pair>>

\* getProfile or messages.send rejects: the catch block.
GmailSendRejects ==
    /\ \E i \in 1..Len(web.reqs), code \in {401, 500} :
         /\ web.reqs[i].route = "gmail-send"
         /\ web.reqs[i].stage \in {"profile", "sending"}
         /\ LET failed == [web EXCEPT !.reqs[i].outcome = "rejected",
                                      !.reqs[i].returned = "e1"]
            IN  IF code = 401
                THEN web' = Respond([failed EXCEPT !.userTokens = NULL], i, 401,
                                    [error |-> "Gmail session expired. Please reconnect."])
                ELSE web' = Respond(failed, i, 500,
                                    ErrorBody("Failed to send email", "e1"))
    /\ UNCHANGED <<aai, aws, old, raw, pair>>

GmailNext ==
    \/ GmailCallbackRequest
    \/ GmailCallbackResolves
    \/ GmailCallbackRejects
    \/ GmailStatus
    \/ GmailDisconnect
    \/ GmailSendRequest
    \/ GmailProfileResolves
    \/ GmailSendResolves
    \/ GmailSendRejects

\* The relay connection that is open while the requests are served.
RelayNext ==
    \/ PairAwsClientMessage("A")
    \/ PairAwsStartResolves("A")
    \/ PairAwsStartFails("A")
    \/ PairAwsUpstreamEvent("A")
    \/ PairAwsStreamEnds("A")
    \/ PairAwsClientGone("A", TRUE)
    \/ PairAwsClientGone("A", FALSE)

\* The two variables describe one process: one program runs.
OneProgram == (web.program = "server.js") <=> (pair.program = "server.js")

\* Mutant: the catch block looks after the uploaded file only.
CatchPathsTempOnly(program, path) == <<path>>

\* The paths the catch block deletes if they exist, in its order.
CatchPaths(program, path) ==
    IF program = "part_002" THEN <<path, WebmPath(path)>> ELSE <<path>>

\* if (fs.existsSync(p)) fs.unlinkSync(p), for each path in turn; oks[k] tells
\* whether the k-th unlinkSync works or throws.
RECURSIVE CleanUp(_, _, _)
CleanUp(disk, paths, oks) ==
    IF paths = <<>> THEN [disk |-> disk, threw |-> FALSE]
    ELSE IF Head(paths) \in disk
    THEN IF Head(oks)
         THEN CleanUp(disk \ {Head(paths)}, Tail(paths), Tail(oks))
         ELSE [disk |-> disk, threw |-> TRUE]
    ELSE CleanUp(disk, Tail(paths), Tail(oks))

\* The catch block of the upload handler: clean up, then answer 500.  An
\* unlinkSync that throws here leaves the handler before the answer.
UploadCatch(w, i, message, oks) ==
    LET c == CleanUp(w.disk, CatchPaths(w.program, w.reqs[i].file), oks)
    IN  IF c.threw
        THEN [w EXCEPT !.reqs[i].stage = "escaped", !.rejections = @ + 1]
        ELSE Respond([w EXCEPT !.disk = c.disk], i, 500,
                     ErrorBody("Transcription failed", message))

\* Mutant: the handler goes on without looking at req.file.
FileMissingIgnored(file) == FALSE

\* !req.file
FileMissing(file) == file = NoFile

\* app.post('/api/transcribe'), after multer stored the upload: up to the
\* await on the transcription backend.
UploadRequest ==
    /\ web.program \in {"combined_server.js", "part_002"}
    /\ Len(web.reqs) < MaxReqs
    /\ \E hasFile \in BOOLEAN, renameOk \in BOOLEAN, oks \in [1..2 -> BOOLEAN] :
         LET i == Len(web.reqs) + 1
             path == TempPath(i)
             got == [web EXCEPT
                       !.reqs = Append(@, [NewRequest("transcribe", NoFindings)
                                             EXCEPT !.file = IF hasFile THEN path
                                                             ELSE NoFile]),
                       !.disk = IF hasFile THEN @ \cup {path} ELSE @]
             call == [req |-> i, backend |-> "transcribe", userText |-> <<>>]
         IN  IF FileMissing(got.reqs[i].file)
             THEN web' = Respond(got, i, 400, [error |-> "Audio file is required"])
             ELSE IF web.program = "combined_server.js"
             THEN web' = [got EXCEPT !.reqs[i].stage = "pending",
                                     !.calls = Append(@, call)]
             ELSE IF renameOk
             THEN web' = [got EXCEPT !.reqs[i].stage = "pending",
                                     !.disk = (@ \ {path}) \cup {WebmPath(path)},
                                     !.calls = Append(@, call)]
             ELSE web' = UploadCatch(got, i, "rename", oks)
    /\ UNCHANGED <<aai, aws, old, raw, pair>>

\* The transcription resolves: the file is deleted and the text is answered.
UploadBackendResolves ==
    /\ \E i \in 1..Len(web.reqs), text \in BackendTexts, ok \in BOOLEAN,
          oks \in [1..2 -> BOOLEAN] :
         /\ web.reqs[i].route = "transcribe" /\ web.reqs[i].stage = "pending"
         /\ LET path == IF web.program = "part_002"
                        THEN WebmPath(web.reqs[i].file) ELSE web.reqs[i].file
                got == [web EXCEPT !.reqs[i].outcome = "resolved",
                                   !.reqs[i].returned = text]
            IN  IF ok
                THEN web' = Respond([got EXCEPT !.disk = @ \ {path}], i, 200,
                                    IF web.program = "part_002"
                                    THEN [text |-> text, confidence |-> "confidence"]
                                    ELSE [text |-> text])
                ELSE web' = UploadCatch(got, i, "unlink", oks)
    /\ UNCHANGED <<aai, aws, old, raw, pair>>

\* The transcription rejects: the catch block.
UploadBackendRejects ==
    /\ \E i \in 1..Len(web.reqs), message \in BackendErrors, oks \in [1..2 -> BOOLEAN] :
         /\ web.reqs[i].route = "transcribe" /\ web.reqs[i].stage = "pending"
         /\ web' = UploadCatch([web EXCEPT !.reqs[i].outcome = "rejected",
                                           !.reqs[i].returned = message],
                               i, message, oks)
    /\ UNCHANGED <<aai, aws, old, raw, pair>>

UploadNext ==
    \/ UploadRequest
    \/ UploadBackendResolves
    \/ UploadBackendRejects

\* The upload requests received so far that came with a file.
Uploads ==
    {i \in 1..Len(web.reqs) : web.reqs[i].route = "transcribe" /\ web.reqs[i].file # NoFile}

\* C26: once the upload handler has responded, neither the uploaded file nor
\* its '.webm' variant exists, whichever way the handler went.
C26_NoTempFileLeft ==
    \A i \in Uploads :
        web.reqs[i].responses # <<>>
        => /\ web.reqs[i].file \notin web.disk
           /\ WebmPath(web.reqs[i].file) \notin web.disk

\* C26 witness (part_002): one upload whose rename failed and one whose
\* transcription failed after the rename, both answered 500, nothing left.
C26_Witness ==
    /\ web.program = "part_002" /\ Len(web.reqs) = 2 /\ Uploads = {1, 2}
    /\ web.reqs[1].outcome = "none" /\ web.reqs[2].outcome = "rejected"
    /\ web.reqs[1].responses # <<>> /\ web.reqs[1].responses[1].status = 500
    /\ web.reqs[2].responses # <<>> /\ web.reqs[2].responses[1].status = 500
    /\ web.disk = {}

\* C27: an upload whose transcription succeeded is answered 200 with the text,
\* and one whose transcription failed is answered 500, whether or not the
\* deletion of the file works.
C27_CleanupFailureHidden ==
    \A i \in Uploads :
        /\ (web.reqs[i].outcome = "resolved" /\ web.reqs[i].stage # "pending")
           => /\ Len(web.reqs[i].responses) = 1
              /\ web.reqs[i].responses[1].status = 200
              /\ web.reqs[i].responses[1].body.text = web.reqs[i].returned
        /\ (web.reqs[i].outcome = "rejected" /\ web.reqs[i].stage # "pending")
           => /\ Len(web.reqs[i].responses) = 1
              /\ web.reqs[i].responses[1].status = 500

\* C28: no failure leaves a handler: no handler's promise rejects.
C28_NoErrorEscapes == web.rejections = 0

\* The upload requests received so far that came without a file.
Fileless ==
    {i \in 1..Len(web.reqs) : web.reqs[i].route = "transcribe" /\ web.reqs[i].file = NoFile}

\* C31: POST /api/transcribe without an uploaded file is answered 400 with an
\* error field and nothing else; no call to the transcription backend is ever
\* made for it, and the step that handles it leaves the disk as it was (no
\* rename, no delete).
C31_MissingFile400 ==
    /\ [](\A i \in Fileless :
            /\ Len(web.reqs[i].responses) = 1
            /\ web.reqs[i].responses[1].status = 400
            /\ "error" \in DOMAIN web.reqs[i].responses[1].body
            /\ \A j \in 1..Len(web.calls) : web.calls[j].req # i)
    /\ [][(Len(web'.reqs) = Len(web.reqs) + 1 /\ Len(web'.reqs) \in Fileless')
          => (web'.disk = web.disk /\ web'.calls = web.calls)]_vars

\* C31 witness: a request without a file was answered while the file of an
\* earlier upload was on disk, waiting for its transcription.
C31_Witness ==
    /\ Len(web.reqs) = 2 /\ Fileless = {2}
    /\ web.reqs[1].stage = "pending" /\ web.disk # {}
    /\ web.reqs[2].responses # <<>> /\ web.reqs[2].responses[1].status = 400

(***************************************************************************)
(* Claims about POST /api/generate-report (SpecReport).                    *)
(***************************************************************************)
\* The backend calls made for request i.
CallsOf(i) == {j \in 1..Len(web.calls) : web.calls[j].req = i}

\* The report requests received so far.
ReportReqs == {i \in 1..Len(web.reqs) : web.reqs[i].route = "generate-report"}

\* f occurs in t as it is, in one piece.
Contains(t, f) == \E k \in 0..(Len(t) - Len(f)) : SubSeq(t, k + 1, k + Len(f)) = f

\* C23: a report request whose findings field is missing, null or the empty
\* string is answered with 400 and a body with an error field, and the
\* text-generation backend is not called for it.
C23_MissingFindings400 ==
    \A i \in ReportReqs :
        (web.reqs[i].findings.type \in {"undefined", "null"}
             \/ web.reqs[i].findings.chars = <<>>)
        => /\ Len(web.reqs[i].responses) = 1
           /\ web.reqs[i].responses[1].status = 400
           /\ "error" \in DOMAIN web.reqs[i].responses[1].body
           /\ CallsOf(i) = {}

\* C23 witness: one request without the field and one with an empty string,
\* both answered 400, no backend call made.
C23_Witness ==
    /\ Len(web.reqs) = 2 /\ web.calls = <<>>
    /\ web.reqs[1].findings.type = "undefined"
    /\ web.reqs[2].findings = [type |-> "string", chars |-> <<>>]
    /\ web.reqs[2].responses[1].status = 400

\* C24: a report request whose backend call failed is answered once, with 500
\* and a body whose error field is set and whose details field is the message
\* of the backend's error; the backend was called once for it.
C24_BackendFailure500 ==
    \A i \in ReportReqs :
        web.reqs[i].outcome = "rejected"
        => /\ Len(web.reqs[i].responses) = 1
           /\ web.reqs[i].responses[1].status = 500
           /\ DOMAIN web.reqs[i].responses[1].body = {"error", "details"}
           /\ web.reqs[i].responses[1].body.details = web.reqs[i].returned
           /\ Cardinality(CallsOf(i)) = 1

\* C24 witness: two requests failed with different backend errors.
C24_Witness ==
    /\ Len(web.reqs) = 2
    /\ web.reqs[1].outcome = "rejected" /\ web.reqs[2].outcome = "rejected"
    /\ web.reqs[1].returned # web.reqs[2].returned

\* C30: a report request with findings whose backend call succeeded: the
\* backend was called once, with a user text that contains the findings as they
\* were given, and the response is 200 with the returned text as its report.
C30_ReportVerbatim ==
    \A i \in ReportReqs :
        web.reqs[i].outcome = "resolved"
        => /\ Cardinality(CallsOf(i)) = 1
           /\ \A j \in CallsOf(i) :
                Contains(web.calls[j].userText, web.reqs[i].findings.chars)
           /\ web.reqs[i].responses
                = <<[status |-> 200, body |-> [report |-> web.reqs[i].returned]]>>

\* C30 witness: findings of two pieces, a backend that returned a text.
C30_Witness ==
    \E i \in ReportReqs :
        /\ web.reqs[i].outcome = "resolved"
        /\ web.reqs[i].findings.chars = <<"f", "g">>
        /\ web.reqs[i].returned = <<"r">>

\* A step of a report request: the request arrives or its handler goes on.
ReportStep ==
    \E i \in 1..Len(web'.reqs) :
        /\ web'.reqs[i].route = "generate-report"
        /\ i \in 1..Len(web.reqs) => web'.reqs[i] # web.reqs[i]

\* C25: a report request gets one response, with status 200, 400 or 500, and
\* none before its handler is done; and a step of a report request leaves the
\* process's variable (userTokens), the relay connections and the other
\* requests as they are.
C25_ReportStateless ==
    /\ [](\A i \in ReportReqs :
            /\ Len(web.reqs[i].responses) = IF web.reqs[i].stage = "done" THEN 1 ELSE 0
            /\ \A k \in 1..Len(web.reqs[i].responses) :
                 web.reqs[i].responses[k].status \in {200, 400, 500})
    /\ [][ReportStep
            => /\ web'.userTokens = web.userTokens
               /\ web'.program = web.program
               /\ UNCHANGED <<aai, aws, old, raw, pair>>
               /\ Cardinality({i \in 1..Len(web'.reqs) :
                                 i \notin 1..Len(web.reqs)
                                   \/ web'.reqs[i] # web.reqs[i]}) = 1]_vars

\* C25 witness: a report request was served while a Gmail token was stored and
\* a relay connection had a session running.
C25_Witness ==
    /\ web.userTokens # NULL
    /\ \E i \in ReportReqs : web.reqs[i].stage = "done"
                               /\ web.reqs[i].responses[1].status = 200
    /\ pair.scope["A"].isTranscribing
    /\ \E s \in 1..Len(pair.sessions) : pair.sessions[s].state = "reading"

(***************************************************************************)
(* Claims about the Gmail routes of src/server.js (SpecGmail).             *)
(***************************************************************************)
\* The request that arrives in this step, if one does (0 if none).
Arriving == IF Len(web'.reqs) = Len(web.reqs) + 1 THEN Len(web'.reqs) ELSE NULL

\* The calls to the Gmail backend made in this step.
GmailCallsMade ==
    {j \in (Len(web.calls) + 1)..Len(web'.calls) :
        web'.calls[j].backend \in {"getProfile", "messages.send"}}

\* C39: the Gmail backend is called only while a token is stored; a send
\* request that meets no token is answered 401 and one that lacks a field 400,
\* both without a backend call; when the backend rejects with code 401 the
\* token is cleared; status tells whether a token is stored; and a token is
\* stored again only by an OAuth callback that succeeds.
C39_SendNeedsToken ==
    /\ [][GmailCallsMade # {} => web.userTokens # NULL]_vars
    /\ [][(Arriving # NULL /\ web'.reqs[Arriving].route = "gmail-send"
            /\ web.userTokens = NULL)
          => (/\ web'.reqs[Arriving].responses # <<>>
              /\ web'.reqs[Arriving].responses[1].status = 401
              /\ web'.calls = web.calls)]_vars
    /\ [](\A i \in 1..Len(web.reqs) :
            (/\ web.reqs[i].route = "gmail-send"
             /\ web.reqs[i].responses # <<>>
             /\ web.reqs[i].responses[1].status = 400)
            => (\A j \in 1..Len(web.calls) : web.calls[j].req # i))
    /\ [][\A i \in 1..Len(web.reqs) :
            (/\ web.reqs[i].route = "gmail-send"
             /\ web.reqs[i].outcome = "none" /\ web'.reqs[i].outcome = "rejected"
             /\ web'.reqs[i].responses[1].status = 401)
            => (web'.userTokens = NULL)]_vars
    /\ [][(Arriving # NULL /\ web'.reqs[Arriving].route = "gmail-status")
          => (web'.reqs[Arriving].responses[1].body.connected
                 = (web.userTokens # NULL))]_vars
    /\ [][(web.userTokens = NULL /\ web'.userTokens # NULL)
          => (\E i \in 1..Len(web.reqs) :
                 /\ web.reqs[i].route = "oauth-callback"
                 /\ web.reqs[i].stage = "pending"
                 /\ web'.reqs[i].stage = "done"
                 /\ web'.reqs[i].responses[1].body.location = "/?gmail=connected")]_vars

Init == AaiInit /\ AwsInit /\ OldInit /\ RawInit /\ PairInit /\ WebInit /\ OneProgram

SpecAai == Init /\ [][AaiNext]_vars

\* What is due does happen: connect() settles, the timer fires, and a socket
\* that failed or is being closed emits its close event.  The upstream is not
\* bound to fail or to close on its own, nor the client to send or to leave.
FairSpecAai ==
    /\ SpecAai
    /\ WF_vars(AaiUpstreamOpen \/ AaiConnectFails)
    /\ WF_vars(AaiRegister)
    /\ WF_vars(AaiUpstreamClose /\ aai.socket \in {"errored", "closing"})

SpecAws == Init /\ [][AwsNext]_vars

\* The behaviours in which every client message is a Buffer and every result
\* the upstream delivers is a final one with a text: what the messages and the
\* results hold has no part in the release of the connection.
AwsPlain ==
    /\ Len(aws.buffers) = aws.nMsgs
    /\ \A i \in 1..Len(aws.delivered) :
          \E e \in PairUpstreamEvents : aws.delivered[i] = e.Results[1]

AwsPlainNext == AwsNext /\ AwsPlain'

\* What is due does happen: a pending start settles, and a result stream ends
\* or throws once its audio input has been ended.  The client is not bound to
\* send or to leave, nor the upstream to end a session that is still fed.
FairSpecAws ==
    /\ Init /\ [][AwsPlainNext]_vars
    /\ WF_vars(AwsStartResolves \/ AwsStartFails)
    /\ WF_vars(AwsStreamEndsAfterInput)

SpecOld == Init /\ [][OldNext]_vars

SpecRaw == Init /\ [][RawNext]_vars

SpecPair == Init /\ [][PairNext]_vars

SpecReport == Init /\ [][ReportNext]_vars

SpecUpload == Init /\ [][UploadNext]_vars

SpecGmail == Init /\ [][GmailNext]_vars

\* The whole process of server.js: report and Gmail requests, MaxReqs of
\* them in all, and a relay connection.
ServerNext ==
    \/ ReportNext
    \/ GmailNext /\ Len(web'.reqs) <= MaxReqs
    \/ RelayNext

SpecServer == Init /\ [][ServerNext]_vars

====
